---- MODULE Spec2Model ----
(***************************************************************************)
(* Path resolution and access classification of src/utils/path.ts.         *)
(*                                                                         *)
(* Strings are sequences of one-character strings, so that prefix tests,   *)
(* separators and trimming are computed character by character.  The       *)
(* filesystem is a finite tree of directories, files and symbolic links;   *)
(* fs.realpathSync and fs.existsSync are computed by walking it the way    *)
(* the operating system does.  The access functions run with the POSIX     *)
(* flavour of the path module; the Windows flavour is modelled for paths   *)
(* with a drive letter or without a root, for the string functions and     *)
(* the comparison of resolved paths.  The edited-files tracker of          *)
(* EditedFilesTracker is modelled with each asynchronous method split at   *)
(* its await.                                                              *)
(***************************************************************************)
EXTENDS Integers, Sequences, FiniteSets, TLC

VARIABLES
  fs,            \* the host filesystem: canonical path -> node
  op,            \* the access function called last ("idle" after a filesystem change)
  candidatePath, \* argument candidatePath of the last call
  contextPaths,  \* argument allowedContextPaths of the last call
  exportPaths,   \* argument allowedExportPaths of the last call
  vaultPath,     \* argument vaultPath of the last call
  ret,           \* what the last call returned ("throw" for an exception)
  fsAccess,      \* whether the last call reached a call of resolveRealPath
  platform,      \* process.platform
  env,           \* process.env
  walkCurrent,   \* resolveRealPath: current, the ancestor the walk has reached
  walkSuffix,    \* resolveRealPath: suffix, the segments stripped, deepest first
  editedFilesThisSession, \* EditedFilesTracker: paths shown as edited
  editedFileHashes,       \* EditedFilesTracker: path -> hash record
  filesBeingEdited,       \* EditedFilesTracker: paths with an edit under way
  planModeActive,         \* EditedFilesTracker: plan mode flag
  pending,       \* EditedFilesTracker: calls suspended at an await
  vaultContent   \* the content of each vault file (Absent: no such file)

\* the state of the walk of resolveRealPath
walkVars == <<walkCurrent, walkSuffix>>

\* the state of the edited-files tracker and of the vault files it hashes
trackerVars == <<editedFilesThisSession, editedFileHashes, filesBeingEdited,
                 planModeActive, pending, vaultContent>>

vars == <<fs, op, candidatePath, contextPaths, exportPaths, vaultPath, ret,
          fsAccess, platform, env, walkCurrent, walkSuffix,
          editedFilesThisSession,
          editedFileHashes, filesBeingEdited, planModeActive, pending,
          vaultContent>>

----------------------------------------------------------------------------
(* Characters and strings *)

Sep == "/"

Lower == {"a","b","c","d","e","f","g","h","i","j","k","l","m",
          "n","o","p","q","r","s","t","u","v","w","x","y","z"}
Upper == {"A","B","C","D","E","F","G","H","I","J","K","L","M",
          "N","O","P","Q","R","S","T","U","V","W","X","Y","Z"}
Digit == {"0","1","2","3","4","5","6","7","8","9"}

LowerLetters == <<"a","b","c","d","e","f","g","h","i","j","k","l","m",
                  "n","o","p","q","r","s","t","u","v","w","x","y","z">>
UpperLetters == <<"A","B","C","D","E","F","G","H","I","J","K","L","M",
                  "N","O","P","Q","R","S","T","U","V","W","X","Y","Z">>

\* the place of a letter in its alphabet
LetterIndex(letters, ch) == CHOOSE i \in 1..26 : letters[i] = ch

\* String.prototype.toUpperCase and toLowerCase
toUpperCase(s) ==
  [i \in 1..Len(s) |->
     IF s[i] \in Lower THEN UpperLetters[LetterIndex(LowerLetters, s[i])] ELSE s[i]]
toLowerCase(s) ==
  [i \in 1..Len(s) |->
     IF s[i] \in Upper THEN LowerLetters[LetterIndex(UpperLetters, s[i])] ELSE s[i]]

\* String.prototype.startsWith
StartsWith(s, pre) ==
  /\ Len(pre) <= Len(s)
  /\ SubSeq(s, 1, Len(pre)) = pre

\* String.prototype.slice(n) with 0 <= n
SliceFrom(s, n) == SubSeq(s, n + 1, Len(s))

\* String.prototype.includes for a single character
Includes(s, ch) == \E i \in 1..Len(s) : s[i] = ch

IsSpace(ch) == ch \in {" ", "\t", "\n"}

RECURSIVE TrimStart(_)
TrimStart(s) ==
  IF s # <<>> /\ IsSpace(Head(s)) THEN TrimStart(Tail(s)) ELSE s

RECURSIVE TrimEnd(_)
TrimEnd(s) ==
  IF s # <<>> /\ IsSpace(s[Len(s)]) THEN TrimEnd(SubSeq(s, 1, Len(s) - 1)) ELSE s

\* String.prototype.trim
Trim(s) == TrimEnd(TrimStart(s))

\* the segments of s between separators, empty segments kept
RECURSIVE SplitFrom(_, _, _)
SplitFrom(s, start, i) ==
  IF i > Len(s) THEN <<SubSeq(s, start, Len(s))>>
  ELSE IF s[i] = Sep
    THEN <<SubSeq(s, start, i - 1)>> \o SplitFrom(s, i + 1, i + 1)
  ELSE SplitFrom(s, start, i + 1)

Split(s) == SplitFrom(s, 1, 1)

\* segments joined with the separator
RECURSIVE JoinSegs(_)
JoinSegs(segs) ==
  IF segs = <<>> THEN <<>>
  ELSE IF Len(segs) = 1 THEN segs[1]
  ELSE segs[1] \o <<Sep>> \o JoinSegs(Tail(segs))

\* the absolute path string of a sequence of segment names
AbsOf(segs) == <<Sep>> \o JoinSegs(segs)

----------------------------------------------------------------------------
(* Node's path module, POSIX flavour *)

\* process.cwd()
Cwd == <<Sep>>

\* path.isAbsolute
isAbsolute(p) == Len(p) > 0 /\ p[1] = Sep

\* normalizeString of lib/path.js: "." and empty segments dropped, ".." pops a
\* segment; above the start it is dropped (allowAbove = FALSE) or kept
RECURSIVE NormSegs(_, _, _)
NormSegs(todo, acc, allowAbove) ==
  IF todo = <<>> THEN acc
  ELSE LET c == Head(todo) IN
    IF c = <<>> \/ c = <<".">> THEN NormSegs(Tail(todo), acc, allowAbove)
    ELSE IF c = <<".", ".">> THEN
      IF acc # <<>> /\ acc[Len(acc)] # <<".", ".">>
        THEN NormSegs(Tail(todo), SubSeq(acc, 1, Len(acc) - 1), allowAbove)
      ELSE IF allowAbove THEN NormSegs(Tail(todo), Append(acc, c), allowAbove)
      ELSE NormSegs(Tail(todo), acc, allowAbove)
    ELSE NormSegs(Tail(todo), Append(acc, c), allowAbove)

\* path.normalize
pathNormalize(p) ==
  IF p = <<>> THEN <<".">>
  ELSE LET abs   == isAbsolute(p)
           trail == p[Len(p)] = Sep
           Normalized(body) ==
             IF body = <<>>
               THEN (IF abs THEN <<Sep>> ELSE IF trail THEN <<".", Sep>> ELSE <<".">>)
             ELSE (IF abs THEN <<Sep>> ELSE <<>>) \o body \o (IF trail THEN <<Sep>> ELSE <<>>)
       IN Normalized(JoinSegs(NormSegs(Split(p), <<>>, ~abs)))

\* path.resolve(from, to): the rightmost absolute argument starts the path,
\* the working directory when there is none; empty arguments are skipped
pathResolve2(from, to) ==
  LET joined == IF isAbsolute(to) THEN to
                ELSE IF isAbsolute(from) THEN from \o <<Sep>> \o to
                ELSE Cwd \o <<Sep>> \o from \o <<Sep>> \o to
  IN AbsOf(NormSegs(Split(joined), <<>>, FALSE))

\* path.resolve(p)
pathResolve(p) == pathResolve2(<<>>, p)

\* path.join(first, ...segments)
pathJoin(first, segs) ==
  LET parts  == SelectSeq(<<first>> \o segs, LAMBDA x : x # <<>>)
  IN IF parts = <<>> THEN <<".">> ELSE pathNormalize(JoinSegs(parts))

\* index of the last separator that ends the directory part of p (0 if none):
\* the backward scan of path.dirname, trailing separators skipped
RECURSIVE DirEnd(_, _, _)
DirEnd(p, i, matchedSlash) ==
  IF i < 2 THEN 0
  ELSE IF p[i] = Sep THEN (IF ~matchedSlash THEN i ELSE DirEnd(p, i - 1, matchedSlash))
  ELSE DirEnd(p, i - 1, FALSE)

\* path.dirname
pathDirname(p) ==
  IF p = <<>> THEN <<".">>
  ELSE LET hasRoot == p[1] = Sep
           end     == DirEnd(p, Len(p), TRUE)
       IN IF end = 0 THEN (IF hasRoot THEN <<Sep>> ELSE <<".">>)
          ELSE IF hasRoot /\ end = 2 THEN <<Sep, Sep>>
          ELSE SubSeq(p, 1, end - 1)

\* path.basename: the last non-empty segment
pathBasename(p) ==
  LET segs == SelectSeq(Split(p), LAMBDA x : x # <<>>)
  IN IF segs = <<>> THEN <<>> ELSE segs[Len(segs)]

----------------------------------------------------------------------------
(* Node's path module, Windows flavour, for paths with a drive letter or *)
(* without a root; UNC paths are not drawn                              *)

BackSep == "\\"

\* isPathSeparator
isPathSeparator(ch) == ch = Sep \/ ch = BackSep

\* process.cwd() on Windows
Win32Cwd == <<"C", ":", BackSep, "w", "o", "r", "k">>

\* the segments between separators of either kind
SplitEither(s) == Split([i \in 1..Len(s) |-> IF s[i] = BackSep THEN Sep ELSE s[i]])

\* the segments joined with backslashes
RECURSIVE JoinBack(_)
JoinBack(segs) ==
  IF segs = <<>> THEN <<>>
  ELSE IF Len(segs) = 1 THEN segs[1]
  ELSE segs[1] \o <<BackSep>> \o JoinBack(Tail(segs))

\* isWindowsDeviceRoot followed by a colon
HasDevice(p) == Len(p) >= 2 /\ p[1] \in Lower \cup Upper /\ p[2] = ":"

\* path.win32.isAbsolute
win32IsAbsolute(p) ==
  /\ Len(p) > 0
  /\ \/ isPathSeparator(p[1])
     \/ (Len(p) > 2 /\ HasDevice(p) /\ isPathSeparator(p[3]))

\* device, rootEnd and isAbsolute as the loop of path.win32.resolve finds them
win32Root(p) ==
  IF Len(p) > 0 /\ isPathSeparator(p[1])
    THEN [device |-> <<>>, rootEnd |-> 1, isAbsolute |-> TRUE]
  ELSE IF HasDevice(p)
    THEN (IF Len(p) > 2 /\ isPathSeparator(p[3])
            THEN [device |-> SubSeq(p, 1, 2), rootEnd |-> 3, isAbsolute |-> TRUE]
            ELSE [device |-> SubSeq(p, 1, 2), rootEnd |-> 2, isAbsolute |-> FALSE])
  ELSE [device |-> <<>>, rootEnd |-> 0, isAbsolute |-> FALSE]

\* resolvedDevice, resolvedTail and resolvedAbsolute before any argument
NothingResolved == [device |-> <<>>, tail |-> <<>>, absolute |-> FALSE, done |-> FALSE]

\* one round of the loop of path.win32.resolve, on the argument p
win32ResolveStep(acc, p) ==
  LET Round(root) ==
        IF acc.done \/ p = <<>> THEN acc
        ELSE IF /\ root.device # <<>>
                /\ acc.device # <<>>
                /\ toLowerCase(root.device) # toLowerCase(acc.device)
          THEN acc
        ELSE LET device == IF acc.device # <<>> THEN acc.device ELSE root.device
             IN IF acc.absolute
                  THEN [acc EXCEPT !.device = device, !.done = (device # <<>>)]
                ELSE [device   |-> device,
                      tail     |-> SliceFrom(p, root.rootEnd) \o <<BackSep>> \o acc.tail,
                      absolute |-> root.isAbsolute,
                      done     |-> (root.isAbsolute /\ device # <<>>)]
  IN Round(win32Root(p))

\* the path of the last round: the working directory, or the root of the
\* resolved device when the working directory is on another drive
win32CwdFor(device) ==
  IF device = <<>> THEN Win32Cwd
  ELSE IF toLowerCase(SubSeq(Win32Cwd, 1, 2)) # toLowerCase(device)
    THEN device \o <<BackSep>>
  ELSE Win32Cwd

\* path.win32.resolve(from, to)
win32Resolve2(from, to) ==
  LET Finished(acc) ==
        IF acc.absolute
          THEN acc.device \o <<BackSep>> \o JoinBack(NormSegs(SplitEither(acc.tail), <<>>, FALSE))
        ELSE acc.device \o JoinBack(NormSegs(SplitEither(acc.tail), <<>>, TRUE))
      Last(acc) == Finished(win32ResolveStep(acc, win32CwdFor(acc.device)))
  IN Last(win32ResolveStep(win32ResolveStep(NothingResolved, to), from))

\* path.win32.normalize
win32Normalize(p) ==
  IF p = <<>> THEN <<".">>
  ELSE IF Len(p) = 1 THEN (IF p[1] = Sep THEN <<BackSep>> ELSE p)
  ELSE LET Normalized(root) ==
             LET body  == JoinBack(NormSegs(SplitEither(SliceFrom(p, root.rootEnd)),
                                            <<>>, ~root.isAbsolute))
                 named == IF body = <<>> /\ ~root.isAbsolute THEN <<".">> ELSE body
                 tail  == IF named # <<>> /\ isPathSeparator(p[Len(p)])
                            THEN named \o <<BackSep>> ELSE named
             IN root.device \o (IF root.isAbsolute THEN <<BackSep>> ELSE <<>>) \o tail
       IN Normalized(win32Root(p))

----------------------------------------------------------------------------
(* Environment, home directory, platform *)

\* process.platform === 'win32'
IsWin32 == platform = "win32"

\* names of the variables of process.env
DOCS_VAR == <<"D","O","C","S">>
NOPE_VAR == <<"N","O","P","E">>

\* process.env
Env == env

\* os.homedir()
HomeDir == <<Sep, "h","o","m","e">>

\* the undefined value (no string: its only element is not a character)
Undefined == <<"undefined">>

\* getEnvValue: an own property of process.env, else undefined off Windows
getEnvValue(key) ==
  IF key \in DOMAIN Env THEN Env[key]
  ELSE IF ~IsWin32 THEN Undefined
  ELSE IF toUpperCase(key) \in DOMAIN Env THEN Env[toUpperCase(key)]
  ELSE IF toLowerCase(key) \in DOMAIN Env THEN Env[toLowerCase(key)]
  ELSE LET matchKeys == {name \in DOMAIN Env : toLowerCase(name) = toLowerCase(key)}
       IN IF matchKeys = {} THEN Undefined ELSE Env[CHOOSE name \in matchKeys : TRUE]

NameStart == Lower \cup Upper \cup {"_"}
NameRest  == NameStart \cup Digit
PctRest   == NameRest \cup {"(", ")"}

\* the last index of the longest run of characters of rest starting at i
RECURSIVE RunEnd(_, _, _)
RunEnd(s, i, rest) ==
  IF i <= Len(s) /\ s[i] \in rest THEN RunEnd(s, i + 1, rest) ELSE i - 1

\* /%([A-Za-z_][A-Za-z0-9_()]*[A-Za-z0-9_)]?)%/
PctEnd(s, i) ==
  IF s[i] = "%" /\ i + 1 <= Len(s) /\ s[i + 1] \in NameStart
    THEN LET e == RunEnd(s, i + 2, PctRest)
         IN IF e + 1 <= Len(s) /\ s[e + 1] = "%" THEN e + 1 ELSE 0
  ELSE 0
PctName(s, i, e) == SubSeq(s, i + 1, e - 1)

\* /\$([A-Za-z_][A-Za-z0-9_]*)|\$\{([A-Za-z_][A-Za-z0-9_]*)\}/
DollarEnd(s, i) ==
  IF s[i] # "$" \/ i + 1 > Len(s) THEN 0
  ELSE IF s[i + 1] \in NameStart THEN RunEnd(s, i + 2, NameRest)
  ELSE IF s[i + 1] = "{" /\ i + 2 <= Len(s) /\ s[i + 2] \in NameStart
    THEN LET e == RunEnd(s, i + 3, NameRest)
         IN IF e + 1 <= Len(s) /\ s[e + 1] = "}" THEN e + 1 ELSE 0
  ELSE 0
DollarName(s, i, e) ==
  IF s[i + 1] = "{" THEN SubSeq(s, i + 2, e - 1) ELSE SubSeq(s, i + 1, e)

\* /!([A-Za-z_][A-Za-z0-9_]*)!/
BangEnd(s, i) ==
  IF s[i] = "!" /\ i + 1 <= Len(s) /\ s[i + 1] \in NameStart
    THEN LET e == RunEnd(s, i + 2, NameRest)
         IN IF e + 1 <= Len(s) /\ s[e + 1] = "!" THEN e + 1 ELSE 0
  ELSE 0
BangName(s, i, e) == SubSeq(s, i + 1, e - 1)

\* /\$env:([A-Za-z_][A-Za-z0-9_]*)/i
EnvEnd(s, i) ==
  IF /\ s[i] = "$"
     /\ i + 5 <= Len(s)
     /\ toLowerCase(SubSeq(s, i + 1, i + 3)) = <<"e","n","v">>
     /\ s[i + 4] = ":"
     /\ s[i + 5] \in NameStart
    THEN RunEnd(s, i + 6, NameRest)
  ELSE 0
EnvName(s, i, e) == SubSeq(s, i + 5, e)

\* the last index of the match of the given syntax that starts at i (0: none)
MatchEnd(s, i, syntax) ==
  IF syntax = "%" THEN PctEnd(s, i)
  ELSE IF syntax = "!" THEN BangEnd(s, i)
  ELSE IF syntax = "$env:" THEN EnvEnd(s, i)
  ELSE DollarEnd(s, i)

\* the variable name the match s[i..e] captures
NameOf(s, i, e, syntax) ==
  IF syntax = "%" THEN PctName(s, i, e)
  ELSE IF syntax = "!" THEN BangName(s, i, e)
  ELSE IF syntax = "$env:" THEN EnvName(s, i, e)
  ELSE DollarName(s, i, e)

\* String.prototype.replace with a global pattern: every match, left to right,
\* replaced by the variable's value, or left as it is when undefined
RECURSIVE ReplaceFrom(_, _, _)
ReplaceFrom(s, i, syntax) ==
  IF i > Len(s) THEN <<>>
  ELSE LET e == MatchEnd(s, i, syntax) IN
    IF e = 0 THEN <<s[i]>> \o ReplaceFrom(s, i + 1, syntax)
    ELSE LET envValue == getEnvValue(NameOf(s, i, e, syntax))
         IN (IF envValue # Undefined THEN envValue ELSE SubSeq(s, i, e))
              \o ReplaceFrom(s, e + 1, syntax)

\* the two passes of lines 76-86, made on Windows only
WindowsPasses(expanded) ==
  IF IsWin32 THEN ReplaceFrom(ReplaceFrom(expanded, 1, "!"), 1, "$env:")
  ELSE expanded

\* expandEnvironmentVariables
expandEnvironmentVariables(value) ==
  IF ~Includes(value, "%") /\ ~Includes(value, "$") /\ ~Includes(value, "!")
    THEN value
  ELSE ReplaceFrom(WindowsPasses(ReplaceFrom(value, 1, "%")), 1, "$")

\* expandHomePath
expandHomePath(p) ==
  LET Home(expanded) ==
        IF expanded = <<"~">> THEN HomeDir
        ELSE IF StartsWith(expanded, <<"~", Sep>>)
          THEN pathJoin(HomeDir, <<SliceFrom(expanded, 2)>>)
        ELSE IF StartsWith(expanded, <<"~", "\\">>)
          THEN pathJoin(HomeDir, <<SliceFrom(expanded, 2)>>)
        ELSE expanded
  IN Home(expandEnvironmentVariables(p))

\* translateMsysPath with the drive letter left in the case it was written in
translateMsysPathKeepCase(value) ==
  IF ~IsWin32 THEN value
  ELSE IF /\ Len(value) >= 2
          /\ value[1] = Sep
          /\ value[2] \in Lower \cup Upper
          /\ (Len(value) = 2 \/ value[3] = Sep)
    THEN <<value[2], ":">>
           \o [i \in 1..(Len(value) - 2) |->
                 IF value[i + 2] = Sep THEN "\\" ELSE value[i + 2]]
  ELSE value

\* translateMsysPath: the input itself off Windows
translateMsysPath(value) ==
  IF ~IsWin32 THEN value
  ELSE IF /\ Len(value) >= 2
          /\ value[1] = Sep
          /\ value[2] \in Lower \cup Upper
          /\ (Len(value) = 2 \/ value[3] = Sep)
    THEN toUpperCase(<<value[2]>>) \o <<":">>
           \o [i \in 1..(Len(value) - 2) |->
                 IF value[i + 2] = Sep THEN "\\" ELSE value[i + 2]]
  ELSE value

\* normalizePathBeforeResolution with the MSYS translation applied to the
\* input, before the variables and the home directory are expanded
normalizePathBeforeResolutionMsysFirst(p) == expandHomePath(translateMsysPath(p))

\* normalizePathBeforeResolution
normalizePathBeforeResolution(p) == translateMsysPath(expandHomePath(p))

\* the extended-length prefixes \\?\UNC\ and \\?\
UncLongPrefix == <<BackSep, BackSep, "?", BackSep, "U", "N", "C", BackSep>>
LongPrefix    == <<BackSep, BackSep, "?", BackSep>>

\* normalizeWindowsPathPrefix: the input itself off Windows
normalizeWindowsPathPrefix(value) ==
  IF ~IsWin32 THEN value
  ELSE LET Stripped(normalized) ==
             IF StartsWith(normalized, UncLongPrefix)
               THEN <<BackSep, BackSep>> \o SliceFrom(normalized, Len(UncLongPrefix))
             ELSE IF StartsWith(normalized, LongPrefix)
               THEN SliceFrom(normalized, Len(LongPrefix))
             ELSE normalized
       IN Stripped(translateMsysPath(value))

\* normalizePathForComparison with the letters left in the case they have
normalizePathForComparisonKeepCase(value) ==
  IF value = <<>> THEN <<>>
  ELSE normalizeWindowsPathPrefix(IF IsWin32 THEN win32Normalize(value)
                                  ELSE pathNormalize(value))

\* normalizePathForComparison: '' for a falsy value, else path.normalize of
\* the platform, lower-cased on Windows only
normalizePathForComparison(value) ==
  IF value = <<>> THEN <<>>
  ELSE LET Folded(normalized) ==
             IF IsWin32 THEN toLowerCase(normalized) ELSE normalized
       IN Folded(normalizeWindowsPathPrefix(IF IsWin32 THEN win32Normalize(value)
                                            ELSE pathNormalize(value)))

----------------------------------------------------------------------------
(* The filesystem *)

\* bound on the symbolic links followed in one lookup (ELOOP beyond it)
MaxSymlinkHops == 3

DirNode        == [kind |-> "dir",  target |-> <<>>]
FileNode       == [kind |-> "file", target |-> <<>>]
NoNode         == [kind |-> "none", target |-> <<>>]
LinkNode(dest) == [kind |-> "link", target |-> dest]

\* the node at a canonical path; the root directory always exists
NodeAt(f, segs) ==
  IF segs = <<>> THEN DirNode
  ELSE IF segs \in DOMAIN f THEN f[segs] ELSE NoNode

\* outcome of a system call that yields a path
Ok(segs) == [ok |-> TRUE,  path |-> segs]
Failed   == [ok |-> FALSE, path |-> <<>>]

\* pathname resolution of the operating system: cur is the directory reached,
\* todo the components left, hops the symbolic links that may still be followed.
\* ENOENT, ENOTDIR and ELOOP all end in Failed.
RECURSIVE Walk(_, _, _, _)
Walk(f, cur, todo, hops) ==
  IF todo = <<>> THEN Ok(cur)
  ELSE IF NodeAt(f, cur).kind # "dir" THEN Failed
  ELSE LET c == Head(todo) IN
    IF c = <<>> \/ c = <<".">> THEN Walk(f, cur, Tail(todo), hops)
    ELSE IF c = <<".", ".">>
      THEN Walk(f, IF cur = <<>> THEN cur ELSE SubSeq(cur, 1, Len(cur) - 1),
                Tail(todo), hops)
    ELSE LET child == Append(cur, c)
             node  == NodeAt(f, child)
         IN IF node.kind = "none" THEN Failed
            ELSE IF node.kind = "link"
              THEN IF hops = 0 THEN Failed
                   ELSE Walk(f, IF isAbsolute(node.target) THEN <<>> ELSE cur,
                             Split(node.target) \o Tail(todo), hops - 1)
            ELSE Walk(f, child, Tail(todo), hops)

\* fs.realpathSync.native: the canonical path, or Failed where it throws
realpathFn(f, p) ==
  IF p = <<>> THEN Failed
  ELSE Walk(f, IF isAbsolute(p) THEN <<>> ELSE NormSegs(Split(Cwd), <<>>, FALSE),
            Split(p), MaxSymlinkHops)

\* fs.existsSync: stat follows links and never throws
existsSync(f, p) == realpathFn(f, p).ok

\* pathname resolution of the operating system for a write that creates the
\* file (fs.writeFile, open(2) with O_CREAT): as Walk, but a last component
\* that is missing names the file to create, and a last component that is a
\* symbolic link is followed to the place its target names
RECURSIVE CreateWalk(_, _, _, _)
CreateWalk(f, cur, todo, hops) ==
  IF todo = <<>> THEN Ok(cur)
  ELSE IF NodeAt(f, cur).kind # "dir" THEN Failed
  ELSE LET c == Head(todo) IN
    IF c = <<>> \/ c = <<".">> THEN CreateWalk(f, cur, Tail(todo), hops)
    ELSE IF c = <<".", ".">>
      THEN CreateWalk(f, IF cur = <<>> THEN cur ELSE SubSeq(cur, 1, Len(cur) - 1),
                      Tail(todo), hops)
    ELSE LET child == Append(cur, c)
             node  == NodeAt(f, child)
         IN IF node.kind = "none"
              THEN (IF Tail(todo) = <<>> THEN Ok(child) ELSE Failed)
            ELSE IF node.kind = "link"
              THEN IF hops = 0 THEN Failed
                   ELSE CreateWalk(f, IF isAbsolute(node.target) THEN <<>> ELSE cur,
                                   Split(node.target) \o Tail(todo), hops - 1)
            ELSE CreateWalk(f, child, Tail(todo), hops)

\* the canonical path of the file that a write to the absolute path p creates
\* or overwrites, or Failed where the write fails
createLocation(f, p) == CreateWalk(f, <<>>, Split(p), MaxSymlinkHops)

\* lstat of the last component of the absolute path p: the node itself, a
\* symbolic link not followed
lstatLast(f, p) ==
  LET Last(dir) ==
        IF dir.ok THEN NodeAt(f, Append(dir.path, pathBasename(p))) ELSE NoNode
  IN Last(realpathFn(f, pathDirname(p)))

----------------------------------------------------------------------------
(* resolveRealPath *)

\* the value that stands for an exception leaving a function
Thrown == <<"throw">>

\* Array.prototype.reverse
Reverse(q) == [i \in 1..Len(q) |-> q[Len(q) + 1 - i]]

\* lines 179-181 with the stripped segments appended in collection order
\* (deepest first) instead of reversed
RejoinNoReverse(resolvedExisting, suffix) ==
  IF Len(suffix) > 0 THEN pathJoin(resolvedExisting, suffix) ELSE resolvedExisting

\* the canonical ancestor with the stripped segments re-appended
Rejoin(resolvedExisting, suffix) ==
  IF Len(suffix) > 0
    THEN pathJoin(resolvedExisting, Reverse(suffix))
    ELSE resolvedExisting

\* the while (true) loop of resolveRealPath; a realpath that throws inside it
\* is caught and the walk goes on with the parent
RECURSIVE WalkUp(_, _, _, _)
WalkUp(f, absolute, current, suffix) ==
  LET Step(exists, real, parent) ==
        IF exists /\ real.ok THEN Rejoin(AbsOf(real.path), suffix)
        ELSE IF parent = current THEN absolute
        ELSE WalkUp(f, absolute, parent, Append(suffix, pathBasename(current)))
  IN Step(existsSync(f, current), realpathFn(f, current), pathDirname(current))

\* resolveRealPath with the outer try/catch left out: the exception of the
\* first realpath leaves the function
resolveRealPathNoCatch(f, p) ==
  LET Resolved(real, absolute) ==
        IF real.ok THEN AbsOf(real.path) ELSE Thrown
  IN Resolved(realpathFn(f, p), pathResolve(p))

\* resolveRealPath
resolveRealPath(f, p) ==
  LET Resolved(real, absolute) ==
        IF real.ok THEN AbsOf(real.path)
        ELSE WalkUp(f, absolute, absolute, <<>>)
  IN Resolved(realpathFn(f, p), pathResolve(p))

----------------------------------------------------------------------------
(* Access control *)

\* the test of lines 283, 313, 351, 385 and 414 as a plain string prefix
IsWithinNaive(resolvedCandidate, root) == StartsWith(resolvedCandidate, root)

\* path.sep
PathSep == IF IsWin32 THEN BackSep ELSE Sep

\* resolvedCandidate === root || resolvedCandidate.startsWith(root + path.sep)
IsWithin(resolvedCandidate, root) ==
  \/ resolvedCandidate = root
  \/ StartsWith(resolvedCandidate, root \o <<PathSep>>)

\* the candidate made absolute against the working directory
AbsCandidateCwd(candidate, vault) ==
  pathResolve(normalizePathBeforeResolution(candidate))

\* absCandidate with the normalized candidate appended to the vault path even
\* when it is absolute
AbsCandidateAlwaysJoined(candidate, vault) ==
  pathResolve(vault \o <<Sep>> \o normalizePathBeforeResolution(candidate))

\* absCandidate: the normalized candidate, joined onto the vault path as given
\* when it is not absolute
AbsCandidate(candidate, vault) ==
  LET Absolute(normalizedCandidate) ==
        IF isAbsolute(normalizedCandidate) THEN normalizedCandidate
        ELSE pathResolve2(vault, normalizedCandidate)
  IN Absolute(normalizePathBeforeResolution(candidate))

\* absCandidate on Windows
AbsCandidateWin32(candidate, vault) ==
  LET Absolute(normalizedCandidate) ==
        IF win32IsAbsolute(normalizedCandidate) THEN normalizedCandidate
        ELSE win32Resolve2(vault, normalizedCandidate)
  IN Absolute(normalizePathBeforeResolution(candidate))

\* normalizePathForComparison(resolveRealPath(p)), an exception passed on
ResolvedForComparison(f, p) ==
  LET Compared(real) ==
        IF real = Thrown THEN Thrown ELSE normalizePathForComparison(real)
  IN Compared(resolveRealPath(f, p))

\* isPathWithinVault
isPathWithinVault(f, candidate, vault) ==
  LET Within(vaultReal, resolvedCandidate) ==
        IF vaultReal = Thrown \/ resolvedCandidate = Thrown THEN "throw"
        ELSE IF IsWithin(resolvedCandidate, vaultReal) THEN "true" ELSE "false"
  IN Within(ResolvedForComparison(f, vault),
            ResolvedForComparison(f, AbsCandidate(candidate, vault)))

\* the for loop of isPathInAllowedExportPaths and isPathInAllowedContextPaths
RECURSIVE AnyRootContains(_, _, _, _)
AnyRootContains(f, resolvedCandidate, allowed, i) ==
  IF i > Len(allowed) THEN "false"
  ELSE LET Contains(resolvedRoot) ==
             IF resolvedRoot = Thrown THEN "throw"
             ELSE IF IsWithin(resolvedCandidate, resolvedRoot) THEN "true"
             ELSE AnyRootContains(f, resolvedCandidate, allowed, i + 1)
       IN Contains(ResolvedForComparison(f, normalizePathBeforeResolution(allowed[i])))

\* isPathInAllowedExportPaths
isPathInAllowedExportPaths(f, candidate, allowedExportPaths, vault) ==
  IF Len(allowedExportPaths) = 0 THEN "false"
  ELSE LET Allowed(resolvedCandidate) ==
             IF resolvedCandidate = Thrown THEN "throw"
             ELSE AnyRootContains(f, resolvedCandidate, allowedExportPaths, 1)
       IN Allowed(ResolvedForComparison(f, AbsCandidate(candidate, vault)))

\* isPathInAllowedContextPaths
isPathInAllowedContextPaths(f, candidate, allowedContextPaths, vault) ==
  IF Len(allowedContextPaths) = 0 THEN "false"
  ELSE LET Allowed(resolvedCandidate) ==
             IF resolvedCandidate = Thrown THEN "throw"
             ELSE AnyRootContains(f, resolvedCandidate, allowedContextPaths, 1)
       IN Allowed(ResolvedForComparison(f, AbsCandidate(candidate, vault)))

\* the roots map of getPathAccessType: its entries in insertion order, and
\* whether building it ended in an exception
NoRoots    == [entries |-> <<>>, thrown |-> FALSE]
RootsThrew == [entries |-> <<>>, thrown |-> TRUE]

\* index of the entry with the given key (0: none): Map.prototype.get
IndexOfRoot(entries, resolved) ==
  LET hits == {i \in 1..Len(entries) : entries[i].root = resolved}
  IN IF hits = {} THEN 0 ELSE CHOOSE i \in hits : TRUE

\* the flags after existing[kind] = true
WithKind(flags, kind) ==
  IF kind = "context" THEN [flags EXCEPT !.context = TRUE]
  ELSE [flags EXCEPT !.export = TRUE]

\* roots.set(resolved, flags): a new key goes last, a known key keeps its place
SetRoot(roots, k, flags) ==
  IF k = 0 THEN [roots EXCEPT !.entries = Append(@, flags)]
  ELSE [roots EXCEPT !.entries[k] = flags]

\* addRoot that starts from clear flags even when the root is already in the
\* map, so the later kind replaces the earlier one
addRootOverwrite(f, roots, rawPath, kind) ==
  LET Flagged(resolved, k) ==
        SetRoot(roots, k, WithKind([root |-> resolved, context |-> FALSE,
                                    export |-> FALSE], kind))
      Added(resolved) ==
        IF resolved = Thrown THEN RootsThrew
        ELSE Flagged(resolved, IndexOfRoot(roots.entries, resolved))
      Kept(trimmed) ==
        IF roots.thrown \/ trimmed = <<>> THEN roots
        ELSE Added(ResolvedForComparison(f, normalizePathBeforeResolution(trimmed)))
  IN Kept(Trim(rawPath))

\* addRoot: blank entries are skipped; an entry that resolves to a root already
\* in the map adds its kind to that root's flags
addRoot(f, roots, rawPath, kind) ==
  LET Flagged(resolved, k) ==
        SetRoot(roots, k,
                WithKind(IF k = 0
                           THEN [root |-> resolved, context |-> FALSE, export |-> FALSE]
                           ELSE roots.entries[k],
                         kind))
      Added(resolved) ==
        IF resolved = Thrown THEN RootsThrew
        ELSE Flagged(resolved, IndexOfRoot(roots.entries, resolved))
      Kept(trimmed) ==
        IF roots.thrown \/ trimmed = <<>> THEN roots
        ELSE Added(ResolvedForComparison(f, normalizePathBeforeResolution(trimmed)))
  IN Kept(Trim(rawPath))

\* the two for loops over allowedContextPaths and allowedExportPaths
RECURSIVE AddRoots(_, _, _, _, _)
AddRoots(f, roots, paths, kind, i) ==
  IF i > Len(paths) THEN roots
  ELSE AddRoots(f, addRoot(f, roots, paths[i], kind), paths, kind, i + 1)

MergedRoots(f, allowedContextPaths, allowedExportPaths) ==
  AddRoots(f, AddRoots(f, NoRoots, allowedContextPaths, "context", 1),
           allowedExportPaths, "export", 1)

\* bestRoot/bestFlags before any root matched
NoBest == [root |-> <<>>, context |-> FALSE, export |-> FALSE, found |-> FALSE]

\* lines 413-420 without the length comparison: the first matching root stays
RECURSIVE SelectBestFirst(_, _, _, _)
SelectBestFirst(roots, resolvedCandidate, best, i) ==
  IF i > Len(roots) THEN best
  ELSE LET r == roots[i]
           take == /\ IsWithin(resolvedCandidate, r.root)
                   /\ (~best.found \/ best.root = <<>>)
       IN SelectBestFirst(roots, resolvedCandidate,
            IF take THEN [root |-> r.root, context |-> r.context,
                          export |-> r.export, found |-> TRUE]
            ELSE best, i + 1)

\* lines 413-420 without the length comparison: the last matching root stays
RECURSIVE SelectBestLast(_, _, _, _)
SelectBestLast(roots, resolvedCandidate, best, i) ==
  IF i > Len(roots) THEN best
  ELSE LET r == roots[i]
           take == IsWithin(resolvedCandidate, r.root)
       IN SelectBestLast(roots, resolvedCandidate,
            IF take THEN [root |-> r.root, context |-> r.context,
                          export |-> r.export, found |-> TRUE]
            ELSE best, i + 1)

\* the loop of lines 413-420: of the roots that match, the longest is kept
\* (!bestRoot is also true of an empty bestRoot)
RECURSIVE SelectBest(_, _, _, _)
SelectBest(roots, resolvedCandidate, best, i) ==
  IF i > Len(roots) THEN best
  ELSE LET r == roots[i]
           take == /\ IsWithin(resolvedCandidate, r.root)
                   /\ (~best.found \/ best.root = <<>> \/ Len(r.root) > Len(best.root))
       IN SelectBest(roots, resolvedCandidate,
            IF take THEN [root |-> r.root, context |-> r.context,
                          export |-> r.export, found |-> TRUE]
            ELSE best, i + 1)

\* lines 422-426 with the context and export answers exchanged
AccessOfBestSwapped(best) ==
  IF ~best.found \/ best.root = <<>> THEN "none"
  ELSE IF best.context /\ best.export THEN "readwrite"
  ELSE IF best.context THEN "export"
  ELSE IF best.export THEN "context"
  ELSE "none"

\* lines 422-426: the access type of the selected root
AccessOfBest(best) ==
  IF ~best.found \/ best.root = <<>> THEN "none"
  ELSE IF best.context /\ best.export THEN "readwrite"
  ELSE IF best.context THEN "context"
  ELSE IF best.export THEN "export"
  ELSE "none"

\* lines 385-427 with the auxiliary roots consulted before the vault
ClassifyResolvedAuxFirst(f, resolvedCandidate, vaultReal, allowedContextPaths, allowedExportPaths) ==
  LET Selected(roots) ==
        IF roots.thrown THEN "throw"
        ELSE AccessOfBest(SelectBest(roots.entries, resolvedCandidate, NoBest, 1))
      Classified(aux) ==
        IF aux # "none" THEN aux
        ELSE IF IsWithin(resolvedCandidate, vaultReal) THEN "vault"
        ELSE "none"
  IN Classified(Selected(MergedRoots(f, allowedContextPaths, allowedExportPaths)))

\* lines 385-427: the vault test, then the merged roots
ClassifyResolved(f, resolvedCandidate, vaultReal, allowedContextPaths, allowedExportPaths) ==
  LET Selected(roots) ==
        IF roots.thrown THEN "throw"
        ELSE AccessOfBest(SelectBest(roots.entries, resolvedCandidate, NoBest, 1))
  IN IF IsWithin(resolvedCandidate, vaultReal) THEN "vault"
     ELSE Selected(MergedRoots(f, allowedContextPaths, allowedExportPaths))

\* whether getPathAccessType gets as far as its first resolveRealPath call
\* (line 374): the return of line 372 comes before it
getPathAccessTypeResolves(candidate) == candidate # <<>>

\* the single-list predicates without the return for a missing or empty list
isPathInAllowedPathsResolvesAlways(allowed) == TRUE

\* whether isPathInAllowedExportPaths or isPathInAllowedContextPaths gets as far
\* as its first resolveRealPath call: the return for a missing or empty list
\* comes before it
isPathInAllowedPathsResolves(allowed) == Len(allowed) # 0

\* getPathAccessType
getPathAccessType(f, candidate, allowedContextPaths, allowedExportPaths, vault) ==
  IF candidate = <<>> THEN "none"
  ELSE LET Classified(vaultReal, resolvedCandidate) ==
             IF vaultReal = Thrown \/ resolvedCandidate = Thrown THEN "throw"
             ELSE ClassifyResolved(f, resolvedCandidate, vaultReal,
                                   allowedContextPaths, allowedExportPaths)
       IN Classified(ResolvedForComparison(f, vault),
                     ResolvedForComparison(f, AbsCandidate(candidate, vault)))

----------------------------------------------------------------------------
(* The image cache of src/images/imageCache.ts *)

\* the value null
Null == <<"null">>

IMAGE_CACHE_DIR ==
  <<".","c","l","a","u","d","i","a","n","-","c","a","c","h","e",
    Sep,"i","m","a","g","e","s">>

\* relPath.replace(/\\/g, '/')
SlashesForward(relPath) ==
  [i \in 1..Len(relPath) |-> IF relPath[i] = "\\" THEN Sep ELSE relPath[i]]

\* normalizeCacheRelPath
normalizeCacheRelPath(relPath) ==
  LET Checked(normalized) ==
        IF isAbsolute(normalized) THEN Null
        ELSE IF ~StartsWith(normalized, IMAGE_CACHE_DIR) THEN Null
        ELSE normalized
  IN IF relPath = <<>> THEN Null ELSE Checked(SlashesForward(relPath))

\* getCacheAbsolutePath, given what getVaultPath returns ('' standing for a
\* vault path that is not available)
getCacheAbsolutePath(vault, relPath) ==
  LET Guarded(absPath, cacheRoot) ==
        IF ~StartsWith(absPath, cacheRoot) THEN Null ELSE absPath
      Resolved(normalizedRel) ==
        IF normalizedRel = Null THEN Null
        ELSE Guarded(pathResolve2(vault, normalizedRel),
                     pathResolve2(vault, IMAGE_CACHE_DIR))
  IN IF vault = <<>> THEN Null ELSE Resolved(normalizeCacheRelPath(relPath))

----------------------------------------------------------------------------
(* Names, the filesystems and the arguments explored *)

vault       == <<"v","a","u","l","t">>
vault2      == <<"v","a","u","l","t","2">>
docs        == <<"d","o","c","s">>
sub         == <<"s","u","b">>
out         == <<"o","u","t">>
etc         == <<"e","t","c">>
passwd      == <<"p","a","s","s","w","d">>
notes       == <<"n","o","t","e","s">>
ctx         == <<"c","t","x">>
gone        == <<"g","o","n","e">>
a_md        == <<"a",".","m","d">>
readme_md   == <<"r","e","a","d","m","e",".","m","d">>
report_pdf  == <<"r","e","p","o","r","t",".","p","d","f">>
file        == <<"f","i","l","e">>
newfile_txt == <<"n","e","w","f","i","l","e",".","t","x","t">>
c_name      == <<"c">>
x_name      == <<"x">>

\* the paths whose node changes while the program runs
MutablePaths == {<<vault, notes>>, <<ctx>>}

\* what symlink(2) may be asked to create at a path
LinkTargets(segs) ==
  IF segs = <<ctx>> THEN {AbsOf(<<docs>>), AbsOf(<<ctx>>), AbsOf(<<gone>>)}
  ELSE IF segs = <<vault, notes>> THEN {AbsOf(<<docs>>)}
  ELSE {}

\* where mkdir(2) may be asked to create a directory
DirPaths == {<<vault, notes>>}

\* the filesystem at start: /vault, /docs, /out and /etc are directories,
\* /etc/passwd is a file
InitialFs ==
  [segs \in {<<vault>>, <<docs>>, <<out>>, <<etc>>, <<etc, passwd>>} \cup MutablePaths |->
     IF segs = <<etc, passwd>> THEN FileNode
     ELSE IF segs \in MutablePaths THEN NoNode
     ELSE DirNode]

\* bound on the entries of allowedContextPaths and allowedExportPaths together
MaxRoots == 2

SeqsUpTo(S, n) == UNION {[1..k -> S] : k \in 0..n}

\* candidate paths handed to the access functions
Candidates ==
  { <<>>,
    notes \o <<Sep>> \o a_md,
    AbsOf(<<docs, readme_md>>),
    AbsOf(<<out, report_pdf>>),
    AbsOf(<<etc, passwd>>),
    AbsOf(<<vault2, file>>),
    AbsOf(<<vault>>),
    AbsOf(<<docs, sub, c_name>>),
    AbsOf(<<ctx, newfile_txt>>),
    <<"$">> \o NOPE_VAR \o <<Sep>> \o x_name,
    <<"~">>,
    <<Sep>> }

\* vault roots handed to the access functions
VaultPaths == {AbsOf(<<vault>>), <<Sep>>, AbsOf(<<ctx>>), <<"$">> \o DOCS_VAR}

\* entries of the context and export lists
RootPaths ==
  { AbsOf(<<docs>>), AbsOf(<<docs, sub>>), AbsOf(<<ctx>>), AbsOf(<<out>>),
    AbsOf(<<vault>>), <<Sep>>, <<" ">>, <<" ">> \o AbsOf(<<docs>>) }

RootLists == SeqsUpTo(RootPaths, MaxRoots)

RootListPairs ==
  {pair \in RootLists \X RootLists : Len(pair[1]) + Len(pair[2]) <= MaxRoots}

----------------------------------------------------------------------------
(* The state machine *)

\* the environment of the access functions: DOCS is defined
PlainEnv == [n \in {DOCS_VAR} |-> AbsOf(<<docs>>)]

\* the call state while no call is under way
Idle ==
  /\ op = "idle"
  /\ candidatePath = <<>>
  /\ contextPaths = <<>>
  /\ exportPaths = <<>>
  /\ vaultPath = <<>>
  /\ ret = "-"
  /\ fsAccess = FALSE
  /\ walkCurrent = <<>>
  /\ walkSuffix = <<>>

\* the value that stands for a file that is not in the vault, and for null
Absent == "absent"

\* the paths of the vault that files are at: tools edit a.md, and a rename
\* moves it to readme.md or back
TrackedPaths == {a_md, readme_md}

\* the tracker after construction, over a vault that holds a.md with its first
\* content and no readme.md
TrackerConstructed ==
  /\ editedFilesThisSession = {}
  /\ editedFileHashes = {}
  /\ filesBeingEdited = {}
  /\ planModeActive = FALSE
  /\ pending = {}
  /\ vaultContent = [path \in TrackedPaths |-> IF path = a_md THEN "v1" ELSE Absent]

Init ==
  /\ fs = InitialFs
  /\ platform = "linux"
  /\ env = PlainEnv
  /\ Idle
  /\ TrackerConstructed

\* nothing of a call is kept: no arguments, no result
Forget ==
  /\ op' = "idle"
  /\ candidatePath' = <<>>
  /\ contextPaths' = <<>>
  /\ exportPaths' = <<>>
  /\ vaultPath' = <<>>
  /\ ret' = "-"
  /\ fsAccess' = FALSE
  /\ walkCurrent' = <<>>
  /\ walkSuffix' = <<>>
  /\ UNCHANGED <<platform, env, trackerVars>>

\* the host creates a directory
Mkdir ==
  /\ op = "idle"
  /\ \E segs \in DirPaths :
       /\ fs[segs].kind = "none"
       /\ fs' = [fs EXCEPT ![segs] = DirNode]
       /\ Forget

\* the host creates a symbolic link
Symlink ==
  /\ op = "idle"
  /\ \E segs \in MutablePaths : \E dest \in LinkTargets(segs) :
       /\ fs[segs].kind = "none"
       /\ fs' = [fs EXCEPT ![segs] = LinkNode(dest)]
       /\ Forget

\* the host removes a directory or a symbolic link
Remove ==
  /\ op = "idle"
  /\ \E segs \in MutablePaths :
       /\ fs[segs].kind # "none"
       /\ fs' = [fs EXCEPT ![segs] = NoNode]
       /\ Forget

\* getPathAccessType answering from the filesystem as it was at start, as if
\* the resolved paths were kept from an earlier call
CallGetPathAccessTypeCached ==
  /\ op = "idle"
  /\ \E c \in Candidates, v \in VaultPaths, pair \in RootListPairs :
       /\ op' = "getPathAccessType"
       /\ candidatePath' = c
       /\ contextPaths' = pair[1]
       /\ exportPaths' = pair[2]
       /\ vaultPath' = v
       /\ ret' = getPathAccessType(InitialFs, c, pair[1], pair[2], v)
       /\ fsAccess' = getPathAccessTypeResolves(c)
       /\ UNCHANGED <<fs, platform, env, walkVars, trackerVars>>

CallGetPathAccessType ==
  /\ op = "idle"
  /\ \E c \in Candidates, v \in VaultPaths, pair \in RootListPairs :
       /\ op' = "getPathAccessType"
       /\ candidatePath' = c
       /\ contextPaths' = pair[1]
       /\ exportPaths' = pair[2]
       /\ vaultPath' = v
       /\ ret' = getPathAccessType(fs, c, pair[1], pair[2], v)
       /\ fsAccess' = getPathAccessTypeResolves(c)
       /\ UNCHANGED <<fs, platform, env, walkVars, trackerVars>>

CallIsPathWithinVault ==
  /\ op = "idle"
  /\ \E c \in Candidates, v \in VaultPaths :
       /\ op' = "isPathWithinVault"
       /\ candidatePath' = c
       /\ contextPaths' = <<>>
       /\ exportPaths' = <<>>
       /\ vaultPath' = v
       /\ ret' = isPathWithinVault(fs, c, v)
       /\ fsAccess' = TRUE
       /\ UNCHANGED <<fs, platform, env, walkVars, trackerVars>>

CallIsPathInAllowedExportPaths ==
  /\ op = "idle"
  /\ \E c \in Candidates, v \in VaultPaths, list \in RootLists :
       /\ op' = "isPathInAllowedExportPaths"
       /\ candidatePath' = c
       /\ contextPaths' = <<>>
       /\ exportPaths' = list
       /\ vaultPath' = v
       /\ ret' = isPathInAllowedExportPaths(fs, c, list, v)
       /\ fsAccess' = isPathInAllowedPathsResolves(list)
       /\ UNCHANGED <<fs, platform, env, walkVars, trackerVars>>

CallIsPathInAllowedContextPaths ==
  /\ op = "idle"
  /\ \E c \in Candidates, v \in VaultPaths, list \in RootLists :
       /\ op' = "isPathInAllowedContextPaths"
       /\ candidatePath' = c
       /\ contextPaths' = list
       /\ exportPaths' = <<>>
       /\ vaultPath' = v
       /\ ret' = isPathInAllowedContextPaths(fs, c, list, v)
       /\ fsAccess' = isPathInAllowedPathsResolves(list)
       /\ UNCHANGED <<fs, platform, env, walkVars, trackerVars>>

\* resolveRealPath as the access functions call it: on a vault root, on a
\* normalized root entry or on an absolute candidate
CallResolveRealPath ==
  /\ op = "idle"
  /\ \E p \in Candidates \cup RootPaths :
       /\ op' = "resolveRealPath"
       /\ candidatePath' = p
       /\ contextPaths' = <<>>
       /\ exportPaths' = <<>>
       /\ vaultPath' = <<>>
       /\ ret' = resolveRealPath(fs, p)
       /\ fsAccess' = TRUE
       /\ UNCHANGED <<fs, platform, env, walkVars, trackerVars>>

\* the caller has used the result; the next call starts from nothing
Return ==
  /\ op # "idle"
  /\ Forget
  /\ UNCHANGED fs

Next ==
  \/ Mkdir
  \/ Symlink
  \/ Remove
  \/ CallGetPathAccessType
  \/ CallIsPathWithinVault
  \/ CallIsPathInAllowedExportPaths
  \/ CallIsPathInAllowedContextPaths
  \/ CallResolveRealPath
  \/ Return

Spec == Init /\ [][Next]_vars

----------------------------------------------------------------------------
(* The string functions and the image cache, applied to drawn inputs *)

A_VAR    == <<"A">>
PF_VAR   == <<"P","F","(","x","8","6",")">>
ENV_VAR  == <<"e","n","v">>
images   == <<"i","m","a","g","e","s">>
a_png    == <<"a",".","p","n","g">>
usr      == <<"u","s","r">>
bin      == <<"b","i","n">>
user     == <<"u","s","e","r">>

Platforms == {"linux", "win32"}

\* an environment in which the value of a variable holds a reference itself
NestedEnv ==
  [n \in {DOCS_VAR, A_VAR, PF_VAR} |->
     IF n = DOCS_VAR THEN AbsOf(<<docs>>)
     ELSE IF n = A_VAR THEN <<"$">> \o DOCS_VAR
     ELSE AbsOf(<<out>>)]

\* an environment with a variable named env
ShadowEnv ==
  [n \in {DOCS_VAR, ENV_VAR} |->
     IF n = DOCS_VAR THEN AbsOf(<<docs>>) ELSE AbsOf(<<out>>)]

\* an environment with a value that starts with ~/ and a value that is an
\* MSYS path
LayeredEnv ==
  [n \in {DOCS_VAR, A_VAR, PF_VAR} |->
     IF n = DOCS_VAR THEN AbsOf(<<docs>>)
     ELSE IF n = A_VAR THEN <<"~", Sep>> \o x_name
     ELSE AbsOf(<<c_name, x_name>>)]

Environments == {PlainEnv, NestedEnv, ShadowEnv, LayeredEnv}

\* the five ways of writing a reference to a variable
Syntaxes == {"%", "!", "$env:", "$", "${"}

Reference(syntax, name) ==
  IF syntax = "%" THEN <<"%">> \o name \o <<"%">>
  ELSE IF syntax = "!" THEN <<"!">> \o name \o <<"!">>
  ELSE IF syntax = "$env:" THEN <<"$","e","n","v",":">> \o name
  ELSE IF syntax = "$" THEN <<"$">> \o name
  ELSE <<"$","{">> \o name \o <<"}">>

VariableNames == {DOCS_VAR, NOPE_VAR, A_VAR}

\* path segments that are a reference, or plain
Tokens ==
  {Reference(syntax, name) : syntax \in Syntaxes, name \in VariableNames}
    \cup {Reference("%", PF_VAR), Reference("%", docs), x_name, <<"~">>}

\* bound on the segments of a drawn string
MaxTokens == 2

\* strings handed to the string functions
StringInputs ==
  {JoinSegs(q) : q \in SeqsUpTo(Tokens, MaxTokens)}
    \cup { <<"~", "\\">> \o x_name,
            <<"~">> \o user \o <<Sep>> \o x_name,
            a_md \o <<Sep, "~", Sep>> \o x_name,
            AbsOf(<<c_name>>),
            AbsOf(<<c_name, x_name, a_md>>),
            AbsOf(<<<<"C">>, x_name>>),
            AbsOf(<<usr, bin>>),
            c_name \o <<Sep>> \o x_name,
            AbsOf(<<<<"1">>, x_name>>) }

\* cache-relative paths handed to getCacheAbsolutePath
CacheRelPaths ==
  { <<>>,
    IMAGE_CACHE_DIR,
    IMAGE_CACHE_DIR \o <<Sep>> \o a_png,
    <<".","c","l","a","u","d","i","a","n","-","c","a","c","h","e","\\">>
      \o images \o <<"\\">> \o a_png,
    IMAGE_CACHE_DIR \o <<"2">> \o <<Sep>> \o a_png,
    IMAGE_CACHE_DIR \o <<Sep, ".", ".", Sep>> \o notes \o <<Sep>> \o a_png,
    IMAGE_CACHE_DIR \o <<Sep, ".", ".", Sep, ".", ".", Sep>> \o notes \o <<Sep>> \o a_md,
    IMAGE_CACHE_DIR \o <<Sep, ".", ".", Sep>> \o images \o <<Sep>> \o a_png,
    notes \o <<Sep>> \o a_md,
    AbsOf(<<etc, passwd>>) }

\* what getVaultPath returns
CacheVaultPaths == {<<>>, AbsOf(<<vault>>), AbsOf(<<vault>>) \o <<Sep>>}

PureInit ==
  /\ fs = InitialFs
  /\ platform \in Platforms
  /\ env \in Environments
  /\ Idle
  /\ TrackerConstructed

ApplyExpandEnvironmentVariables ==
  /\ op = "idle"
  /\ \E value \in StringInputs :
       /\ op' = "expandEnvironmentVariables"
       /\ candidatePath' = value
       /\ ret' = expandEnvironmentVariables(value)
       /\ UNCHANGED <<fs, contextPaths, exportPaths, vaultPath, fsAccess, platform, env,
                    walkVars, trackerVars>>

ApplyTranslateMsysPath ==
  /\ op = "idle"
  /\ \E value \in StringInputs :
       /\ op' = "translateMsysPath"
       /\ candidatePath' = value
       /\ ret' = translateMsysPath(value)
       /\ UNCHANGED <<fs, contextPaths, exportPaths, vaultPath, fsAccess, platform, env,
                    walkVars, trackerVars>>

\* expandHomePath calls path.join
ApplyExpandHomePath ==
  /\ op = "idle"
  /\ ~IsWin32
  /\ \E p \in StringInputs :
       /\ op' = "expandHomePath"
       /\ candidatePath' = p
       /\ ret' = expandHomePath(p)
       /\ UNCHANGED <<fs, contextPaths, exportPaths, vaultPath, fsAccess, platform, env,
                    walkVars, trackerVars>>

\* expandHomePath gets as far as one of its path.join calls (lines 108, 111)
expandHomePathJoins(p) ==
  LET Joins(expanded) ==
        \/ StartsWith(expanded, <<"~", Sep>>)
        \/ StartsWith(expanded, <<"~", "\\">>)
  IN Joins(expandEnvironmentVariables(p))

\* on Windows for the inputs that reach no call of the path module
ApplyNormalizePathBeforeResolution ==
  /\ op = "idle"
  /\ \E p \in StringInputs :
       /\ ~IsWin32 \/ ~expandHomePathJoins(p)
       /\ op' = "normalizePathBeforeResolution"
       /\ candidatePath' = p
       /\ ret' = normalizePathBeforeResolution(p)
       /\ UNCHANGED <<fs, contextPaths, exportPaths, vaultPath, fsAccess, platform, env,
                    walkVars, trackerVars>>

\* getCacheAbsolutePath calls path.resolve
ApplyGetCacheAbsolutePath ==
  /\ op = "idle"
  /\ ~IsWin32
  /\ \E relPath \in CacheRelPaths, v \in CacheVaultPaths :
       /\ op' = "getCacheAbsolutePath"
       /\ candidatePath' = relPath
       /\ vaultPath' = v
       /\ ret' = getCacheAbsolutePath(v, relPath)
       /\ UNCHANGED <<fs, contextPaths, exportPaths, fsAccess, platform, env,
                    walkVars, trackerVars>>

\* vault roots on Windows
Win32VaultPaths ==
  { <<"C", ":", BackSep>> \o vault, <<"D", ":", BackSep>> \o vault }

\* lines 376-381 on Windows, for the candidates that reach no path.join call
ApplyAbsCandidateWin32 ==
  /\ op = "idle"
  /\ IsWin32
  /\ \E c \in StringInputs, v \in Win32VaultPaths :
       /\ ~expandHomePathJoins(c)
       /\ op' = "absCandidate"
       /\ candidatePath' = c
       /\ vaultPath' = v
       /\ ret' = AbsCandidateWin32(c, v)
       /\ UNCHANGED <<fs, contextPaths, exportPaths, fsAccess, platform, env,
                    walkVars, trackerVars>>

Vault_name == <<"V","a","u","l","t">>
VAULT_NAME == <<"V","A","U","L","T">>
X_NAME     == <<"X">>

\* what resolveRealPath returns on the platform, in several spellings
ResolvedPaths ==
  IF IsWin32
    THEN {drive \o <<BackSep>> \o JoinBack(segs) :
            drive \in {<<"C", ":">>, <<"c", ":">>},
            segs \in {<<vault>>, <<Vault_name>>, <<VAULT_NAME, X_NAME>>,
                      <<vault, x_name>>, <<vault2, x_name>>, <<docs>>}}
    ELSE {AbsOf(segs) :
            segs \in {<<vault>>, <<Vault_name>>, <<VAULT_NAME, X_NAME>>,
                      <<vault, x_name>>, <<Vault_name, x_name>>, <<vault2, x_name>>,
                      <<docs>>}}

\* the test of lines 283, 313, 351, 385 and 414 on the resolved path of a
\* candidate and the resolved path of a root
ApplyCompareResolved ==
  /\ op = "idle"
  /\ \E resolvedCandidate \in ResolvedPaths, resolvedRoot \in ResolvedPaths :
       /\ op' = "compareResolved"
       /\ candidatePath' = resolvedCandidate
       /\ vaultPath' = resolvedRoot
       /\ ret' = (IF IsWithin(normalizePathForComparison(resolvedCandidate),
                              normalizePathForComparison(resolvedRoot))
                    THEN "true" ELSE "false")
       /\ UNCHANGED <<fs, contextPaths, exportPaths, fsAccess, platform, env,
                      walkVars, trackerVars>>

PureNext ==
  \/ ApplyCompareResolved
  \/ ApplyAbsCandidateWin32
  \/ ApplyExpandEnvironmentVariables
  \/ ApplyTranslateMsysPath
  \/ ApplyExpandHomePath
  \/ ApplyNormalizePathBeforeResolution
  \/ ApplyGetCacheAbsolutePath
  \/ Return

PureSpec == PureInit /\ [][PureNext]_vars

----------------------------------------------------------------------------
(* resolveRealPath, one round of its loop at a time *)

\* the filesystems the walk is run in
WalkFilesystems ==
  {[InitialFs EXCEPT ![<<vault, notes>>] = n, ![<<ctx>>] = c] :
     n \in {NoNode, DirNode, LinkNode(AbsOf(<<docs>>))},
     c \in {NoNode} \cup {LinkNode(dest) : dest \in LinkTargets(<<ctx>>)}}

\* the paths resolved
WalkInputs ==
  Candidates \cup RootPaths
    \cup {AbsOf(<<gone, sub, c_name>>), AbsOf(<<vault, notes, sub, a_md>>)}

\* before resolveRealPath is called: no argument, no value, no walk
WalkIdle ==
  /\ op = "idle"
  /\ candidatePath = <<>>
  /\ contextPaths = <<>>
  /\ exportPaths = <<>>
  /\ vaultPath = <<>>
  /\ ret = <<>>
  /\ fsAccess = FALSE
  /\ walkCurrent = <<>>
  /\ walkSuffix = <<>>

WalkInit ==
  /\ fs \in WalkFilesystems
  /\ platform = "linux"
  /\ env = PlainEnv
  /\ WalkIdle
  /\ TrackerConstructed

\* lines 165-172: the first realpath call returns, or its exception starts
\* the loop at the absolute form of p
WalkStart ==
  /\ op = "idle"
  /\ \E p \in WalkInputs :
       LET Started(real) ==
             /\ candidatePath' = p
             /\ fsAccess' = TRUE
             /\ walkSuffix' = <<>>
             /\ IF real.ok
                  THEN /\ op' = "resolveRealPath"
                       /\ ret' = AbsOf(real.path)
                       /\ walkCurrent' = <<>>
                  ELSE /\ op' = "resolveRealPath.loop"
                       /\ ret' = <<>>
                       /\ walkCurrent' = pathResolve(p)
       IN Started(realpathFn(fs, p))
  /\ UNCHANGED <<fs, contextPaths, exportPaths, vaultPath, platform, env, trackerVars>>

\* lines 177-181: current exists and is canonicalised; the stripped segments
\* are appended to it
WalkFound ==
  /\ op = "resolveRealPath.loop"
  /\ existsSync(fs, walkCurrent)
  /\ op' = "resolveRealPath"
  /\ LET Found(real) ==
           /\ real.ok
           /\ ret' = Rejoin(AbsOf(real.path), walkSuffix)
     IN Found(realpathFn(fs, walkCurrent))
  /\ UNCHANGED <<fs, candidatePath, contextPaths, exportPaths, vaultPath, fsAccess,
                 platform, env, walkVars, trackerVars>>

\* the round that stays at current: lines 187-193 left out
WalkUpwardStay ==
  /\ op = "resolveRealPath.loop"
  /\ UNCHANGED vars

\* lines 183-193: current does not exist, or its canonicalisation threw and
\* the exception was swallowed (the system call may fail on a path that
\* exists); the walk returns at the root and otherwise goes on with the parent
WalkUpward ==
  /\ op = "resolveRealPath.loop"
  /\ LET Upward(parent) ==
           IF parent = walkCurrent
             THEN /\ op' = "resolveRealPath"
                  /\ ret' = pathResolve(candidatePath)
                  /\ UNCHANGED walkVars
             ELSE /\ walkSuffix' = Append(walkSuffix, pathBasename(walkCurrent))
                  /\ walkCurrent' = parent
                  /\ UNCHANGED <<op, ret>>
     IN Upward(pathDirname(walkCurrent))
  /\ UNCHANGED <<fs, candidatePath, contextPaths, exportPaths, vaultPath, fsAccess,
                 platform, env, trackerVars>>

\* the caller has the value; the next call starts from nothing
WalkReturn ==
  /\ op = "resolveRealPath"
  /\ op' = "idle"
  /\ candidatePath' = <<>>
  /\ ret' = <<>>
  /\ fsAccess' = FALSE
  /\ walkCurrent' = <<>>
  /\ walkSuffix' = <<>>
  /\ UNCHANGED <<fs, contextPaths, exportPaths, vaultPath, platform, env, trackerVars>>

WalkNext ==
  \/ WalkStart
  \/ WalkFound
  \/ WalkUpward
  \/ WalkReturn

\* the loop runs on: while it has not returned, the round of lines 183-193 can
\* be taken, and the walk does not stay at current for ever
WalkSpec ==
  WalkInit /\ [][WalkNext]_vars /\ WF_<<op, walkVars>>(WalkUpward)

----------------------------------------------------------------------------
(* getPathAccessType on longer root lists *)

\* bound on the entries of allowedContextPaths and allowedExportPaths together
\* when the lists are written in several ways
MaxListed == 3

\* the filesystems: /ctx missing, and /ctx a symbolic link to /docs
OrderFilesystems ==
  {InitialFs, [InitialFs EXCEPT ![<<ctx>>] = LinkNode(AbsOf(<<docs>>))]}

OrderRoots ==
  {AbsOf(<<docs>>), AbsOf(<<docs, sub>>), AbsOf(<<ctx>>), <<" ">> \o AbsOf(<<docs>>)}

OrderCandidates ==
  {AbsOf(<<docs, sub, c_name>>), AbsOf(<<docs, readme_md>>), AbsOf(<<ctx, newfile_txt>>)}

OrderListPairs ==
  {pair \in SeqsUpTo(OrderRoots, MaxListed) \X SeqsUpTo(OrderRoots, MaxListed) :
     Len(pair[1]) + Len(pair[2]) <= MaxListed}

OrderInit ==
  /\ fs \in OrderFilesystems
  /\ platform = "linux"
  /\ env = PlainEnv
  /\ Idle
  /\ TrackerConstructed

CallGetPathAccessTypeListed ==
  /\ op = "idle"
  /\ \E c \in OrderCandidates, pair \in OrderListPairs :
       /\ op' = "getPathAccessType"
       /\ candidatePath' = c
       /\ contextPaths' = pair[1]
       /\ exportPaths' = pair[2]
       /\ vaultPath' = AbsOf(<<vault>>)
       /\ ret' = getPathAccessType(fs, c, pair[1], pair[2], AbsOf(<<vault>>))
       /\ fsAccess' = getPathAccessTypeResolves(c)
       /\ UNCHANGED <<fs, platform, env, walkVars, trackerVars>>

OrderNext ==
  \/ CallGetPathAccessTypeListed
  \/ Return

OrderSpec == OrderInit /\ [][OrderNext]_vars

----------------------------------------------------------------------------
(* The access functions on candidates that pass through a symbolic link *)

\* the filesystems: /vault/notes is missing, a directory, a symbolic link to
\* the directory /docs, or a symbolic link to /gone or /docs/new, which do
\* not exist
new_name == <<"n","e","w">>

LinkFilesystems ==
  {[InitialFs EXCEPT ![<<vault, notes>>] = node] :
     node \in {NoNode, DirNode, LinkNode(AbsOf(<<docs>>)),
               LinkNode(AbsOf(<<gone>>)), LinkNode(AbsOf(<<docs, new_name>>))}}

LinkCandidates ==
  { notes,
    AbsOf(<<vault, notes>>),
    notes \o <<Sep>> \o a_md,
    notes \o <<Sep, ".", ".", Sep>> \o x_name,
    AbsOf(<<vault, notes>>) \o <<Sep, ".", ".", Sep>> \o x_name,
    AbsOf(<<docs, readme_md>>),
    AbsOf(<<x_name>>) }

LinkVaultPaths == {AbsOf(<<vault>>), AbsOf(<<out>>)}

LinkListPairs ==
  {pair \in SeqsUpTo({AbsOf(<<vault>>), AbsOf(<<docs>>)}, MaxRoots)
            \X SeqsUpTo({AbsOf(<<vault>>), AbsOf(<<docs>>)}, MaxRoots) :
     Len(pair[1]) + Len(pair[2]) <= MaxRoots}

LinkInit ==
  /\ fs \in LinkFilesystems
  /\ platform = "linux"
  /\ env = PlainEnv
  /\ Idle
  /\ TrackerConstructed

CallGetPathAccessTypeLinked ==
  /\ op = "idle"
  /\ \E c \in LinkCandidates, pair \in LinkListPairs, v \in LinkVaultPaths :
       /\ op' = "getPathAccessType"
       /\ candidatePath' = c
       /\ contextPaths' = pair[1]
       /\ exportPaths' = pair[2]
       /\ vaultPath' = v
       /\ ret' = getPathAccessType(fs, c, pair[1], pair[2], v)
       /\ fsAccess' = getPathAccessTypeResolves(c)
       /\ UNCHANGED <<fs, platform, env, walkVars, trackerVars>>

CallIsPathWithinVaultLinked ==
  /\ op = "idle"
  /\ \E c \in LinkCandidates, v \in LinkVaultPaths :
       /\ op' = "isPathWithinVault"
       /\ candidatePath' = c
       /\ contextPaths' = <<>>
       /\ exportPaths' = <<>>
       /\ vaultPath' = v
       /\ ret' = isPathWithinVault(fs, c, v)
       /\ fsAccess' = TRUE
       /\ UNCHANGED <<fs, platform, env, walkVars, trackerVars>>

LinkNext ==
  \/ CallGetPathAccessTypeLinked
  \/ CallIsPathWithinVaultLinked
  \/ Return

LinkSpec == LinkInit /\ [][LinkNext]_vars

----------------------------------------------------------------------------
(* The edited-files tracker (EditedFilesTracker) *)

\* bound on the calls of the tracker that wait for a file hash at one time
MaxPending == 1

\* the variables of the path functions, which the tracker leaves alone
accessVars == <<fs, op, candidatePath, contextPaths, exportPaths, vaultPath, ret,
                fsAccess, platform, env, walkCurrent, walkSuffix>>

\* normalizePathForVault of ui/FileContext.ts, the vault being at /vault: the
\* path relative to the vault, or null for a missing path
normalizePathForVault(rawPath) ==
  LET normalizedVault == AbsOf(<<vault>>)
      Relative(unixPath) ==
        LET Stripped(relative) == IF relative # <<>> THEN relative ELSE unixPath
        IN IF StartsWith(unixPath, normalizedVault)
             THEN Stripped(JoinSegs(SelectSeq(
                    Split(SliceFrom(unixPath, Len(normalizedVault))),
                    LAMBDA x : x # <<>>)))
             ELSE unixPath
  IN IF rawPath = <<>> THEN Null ELSE Relative(SlashesForward(rawPath))

\* isEditTool of core/tools/toolNames
isEditTool(toolName) == toolName \in {"Write", "Edit", "NotebookEdit"}

\* the tools whose calls reach the tracker, and the paths in their input
ToolNames == {"Edit", "Read"}
RawPaths == {a_md, AbsOf(<<vault, a_md>>), <<>>}

\* computeContentHash: the SHA-256 digest of the content
computeContentHash(content) == <<"sha256", content>>

\* a hash that vault.read has not produced yet
Unread == <<"unread">>

\* computeFileHash up to its first await: null when the path names no file
HashStarted(path) == IF vaultContent[path] = Absent THEN Null ELSE Unread

\* the hash record of a path, as a set with at most one member
HashStateOf(path) == {h \in editedFileHashes : h.path = path}

\* Map.prototype.delete and Map.prototype.set on editedFileHashes
HashesDelete(hashes, path) == {h \in hashes : h.path # path}
HashesSet(hashes, path, originalHash, postEditHash) ==
  HashesDelete(hashes, path)
    \cup {[path |-> path, originalHash |-> originalHash, postEditHash |-> postEditHash]}

\* a call that waits for computeFileHash; hashState is what handleFileModified
\* read from editedFileHashes before it waits
Waiting(method, path, hashState) ==
  [method |-> method, path |-> path, hash |-> HashStarted(path), hashState |-> hashState]

NoHashState == [originalHash |-> Null, postEditHash |-> <<>>]

\* dismissEditedFile, as a function of the three collections
Dismissed(edited, hashes, being, path) ==
  IF path \in being \/ path \notin edited THEN <<edited, hashes>>
  ELSE <<edited \ {path}, HashesDelete(hashes, path)>>

TrackerInit ==
  /\ fs = InitialFs
  /\ platform = "linux"
  /\ env = PlainEnv
  /\ Idle
  /\ TrackerConstructed

setPlanModeActive ==
  /\ \E active \in BOOLEAN : planModeActive' = active
  /\ UNCHANGED <<editedFilesThisSession, editedFileHashes, filesBeingEdited,
                 pending, vaultContent, accessVars>>

clear ==
  /\ editedFilesThisSession' = {}
  /\ editedFileHashes' = {}
  /\ filesBeingEdited' = {}
  /\ UNCHANGED <<planModeActive, pending, vaultContent, accessVars>>

dismissEditedFile ==
  /\ \E rawPath \in RawPaths :
       LET Act(normalized) ==
             IF normalized = Null
               THEN UNCHANGED <<editedFilesThisSession, editedFileHashes>>
             ELSE LET after == Dismissed(editedFilesThisSession, editedFileHashes,
                                         filesBeingEdited, normalized)
                  IN /\ editedFilesThisSession' = after[1]
                     /\ editedFileHashes' = after[2]
       IN Act(normalizePathForVault(rawPath))
  /\ UNCHANGED <<filesBeingEdited, planModeActive, pending, vaultContent, accessVars>>

\* markFileBeingEdited up to the await of computeFileHash
markFileBeingEdited ==
  /\ \E toolName \in ToolNames, rawPath \in RawPaths :
       LET Act(path) ==
             IF planModeActive \/ ~isEditTool(toolName) \/ path = Null
               THEN UNCHANGED <<filesBeingEdited, pending>>
             ELSE /\ filesBeingEdited' = filesBeingEdited \cup {path}
                  /\ IF path \notin filesBeingEdited
                       THEN /\ Cardinality(pending) < MaxPending
                            /\ pending' = pending \cup
                                 {Waiting("markFileBeingEdited", path, NoHashState)}
                       ELSE UNCHANGED pending
       IN Act(normalizePathForVault(rawPath))
  /\ UNCHANGED <<editedFilesThisSession, editedFileHashes, planModeActive,
                 vaultContent, accessVars>>

\* vault.read inside computeFileHash: the content is read and hashed; a file
\* deleted in the meantime makes the read throw, and the hash is null
vaultRead ==
  /\ \E w \in pending :
       /\ w.hash = Unread
       /\ pending' = (pending \ {w}) \cup
            {[w EXCEPT !.hash = IF vaultContent[w.path] = Absent THEN Null
                                 ELSE computeContentHash(vaultContent[w.path])]}
  /\ UNCHANGED <<editedFilesThisSession, editedFileHashes, filesBeingEdited,
                 planModeActive, vaultContent, accessVars>>

\* markFileBeingEdited after the await
markFileBeingEditedResumed ==
  /\ \E w \in pending :
       /\ w.method = "markFileBeingEdited"
       /\ w.hash # Unread
       /\ editedFileHashes' = HashesSet(editedFileHashes, w.path, w.hash, <<>>)
       /\ pending' = pending \ {w}
  /\ UNCHANGED <<editedFilesThisSession, filesBeingEdited, planModeActive,
                 vaultContent, accessVars>>

\* trackEditedFile up to the await of computeFileHash; with isError it ends
\* before the await
trackEditedFile ==
  /\ \E toolName \in ToolNames, rawPath \in RawPaths, isError \in BOOLEAN :
       LET Act(filePath) ==
             IF planModeActive \/ ~isEditTool(toolName) \/ filePath = Null
               THEN UNCHANGED <<editedFileHashes, filesBeingEdited, pending>>
             ELSE IF isError
               THEN /\ filesBeingEdited' = filesBeingEdited \ {filePath}
                    /\ editedFileHashes' =
                         IF filePath \notin editedFilesThisSession
                           THEN HashesDelete(editedFileHashes, filePath)
                           ELSE editedFileHashes
                    /\ UNCHANGED pending
             ELSE /\ Cardinality(pending) < MaxPending
                  /\ pending' = pending \cup
                       {Waiting("trackEditedFile", filePath, NoHashState)}
                  /\ UNCHANGED <<editedFileHashes, filesBeingEdited>>
       IN Act(normalizePathForVault(rawPath))
  /\ UNCHANGED <<editedFilesThisSession, planModeActive, vaultContent, accessVars>>

\* trackEditedFile after the await; activePath is what getActiveFile gives
trackEditedFileResumed ==
  /\ \E w \in pending, activePath \in TrackedPaths \cup {Null} :
       /\ w.method = "trackEditedFile"
       /\ w.hash # Unread
       /\ pending' = pending \ {w}
       /\ filesBeingEdited' = filesBeingEdited \ {w.path}
       /\ LET existing == HashStateOf(w.path)
              reverted ==
                /\ w.hash # Null
                /\ \E h \in existing : h.originalHash # Null /\ w.hash = h.originalHash
              original ==
                IF existing = {} THEN Null ELSE (CHOOSE h \in existing : TRUE).originalHash
              hashes ==
                IF w.hash # Null
                  THEN HashesSet(editedFileHashes, w.path, original, w.hash)
                  ELSE editedFileHashes
              after ==
                IF activePath = w.path
                  THEN Dismissed(editedFilesThisSession \cup {w.path}, hashes,
                                 filesBeingEdited \ {w.path}, w.path)
                  ELSE <<editedFilesThisSession \cup {w.path}, hashes>>
          IN IF reverted
               THEN /\ editedFilesThisSession' = editedFilesThisSession \ {w.path}
                    /\ editedFileHashes' = HashesDelete(editedFileHashes, w.path)
               ELSE /\ editedFilesThisSession' = after[1]
                    /\ editedFileHashes' = after[2]
  /\ UNCHANGED <<planModeActive, vaultContent, accessVars>>

cancelFileEdit ==
  /\ \E toolName \in ToolNames, rawPath \in RawPaths :
       LET Act(path) ==
             IF ~isEditTool(toolName) \/ path = Null
               THEN UNCHANGED <<editedFileHashes, filesBeingEdited>>
             ELSE /\ filesBeingEdited' = filesBeingEdited \ {path}
                  /\ editedFileHashes' =
                       IF path \notin editedFilesThisSession
                         THEN HashesDelete(editedFileHashes, path)
                         ELSE editedFileHashes
       IN Act(normalizePathForVault(rawPath))
  /\ UNCHANGED <<editedFilesThisSession, planModeActive, pending, vaultContent,
                 accessVars>>

\* a file of the vault is deleted, and the vault's 'delete' event calls
\* handleFileDeleted
handleFileDeleted ==
  /\ \E path \in TrackedPaths :
       /\ vaultContent[path] # Absent
       /\ vaultContent' = [vaultContent EXCEPT ![path] = Absent]
       /\ IF path \in editedFilesThisSession
            THEN /\ editedFilesThisSession' = editedFilesThisSession \ {path}
                 /\ editedFileHashes' = HashesDelete(editedFileHashes, path)
                 /\ filesBeingEdited' = filesBeingEdited \ {path}
            ELSE UNCHANGED <<editedFilesThisSession, editedFileHashes, filesBeingEdited>>
  /\ UNCHANGED <<planModeActive, pending, accessVars>>

\* a file of the vault is renamed, and the vault's 'rename' event calls
\* handleFileRenamed
handleFileRenamed ==
  /\ \E oldPath \in TrackedPaths, newPath \in TrackedPaths :
       /\ vaultContent[oldPath] # Absent
       /\ vaultContent[newPath] = Absent
       /\ vaultContent' = [vaultContent EXCEPT ![newPath] = vaultContent[oldPath],
                                               ![oldPath] = Absent]
       /\ IF oldPath \in editedFilesThisSession
            THEN /\ editedFilesThisSession' =
                      (editedFilesThisSession \ {oldPath}) \cup {newPath}
                 /\ editedFileHashes' =
                      HashesDelete(editedFileHashes, oldPath) \cup
                        {[h EXCEPT !.path = newPath] : h \in HashStateOf(oldPath)}
            ELSE UNCHANGED <<editedFilesThisSession, editedFileHashes>>
       /\ filesBeingEdited' =
            IF oldPath \in filesBeingEdited
              THEN (filesBeingEdited \ {oldPath}) \cup {newPath}
              ELSE filesBeingEdited
  /\ UNCHANGED <<planModeActive, pending, accessVars>>

\* a file of the vault gets other content, and the vault's 'modify' event calls
\* handleFileModified, which runs up to the await of computeFileHash
handleFileModified ==
  /\ \E path \in TrackedPaths :
       /\ vaultContent[path] # Absent
       /\ vaultContent' =
            [vaultContent EXCEPT ![path] = IF vaultContent[path] = "v1" THEN "v2" ELSE "v1"]
       /\ IF path \in filesBeingEdited \/ path \notin editedFilesThisSession
             \/ HashStateOf(path) = {}
            THEN UNCHANGED pending
            ELSE /\ Cardinality(pending) < MaxPending
                 /\ pending' = pending \cup
                      {[method |-> "handleFileModified", path |-> path, hash |-> Unread,
                        hashState |-> LET h == CHOOSE x \in HashStateOf(path) : TRUE
                                      IN [originalHash |-> h.originalHash,
                                          postEditHash |-> h.postEditHash]]}
  /\ UNCHANGED <<editedFilesThisSession, editedFileHashes, filesBeingEdited,
                 planModeActive, accessVars>>

\* handleFileModified after the await
handleFileModifiedResumed ==
  /\ \E w \in pending :
       /\ w.method = "handleFileModified"
       /\ w.hash # Unread
       /\ pending' = pending \ {w}
       /\ IF w.hash # Null /\ w.hashState.originalHash # Null
             /\ w.hash = w.hashState.originalHash
            THEN /\ editedFilesThisSession' = editedFilesThisSession \ {w.path}
                 /\ editedFileHashes' = HashesDelete(editedFileHashes, w.path)
            ELSE UNCHANGED <<editedFilesThisSession, editedFileHashes>>
  /\ UNCHANGED <<filesBeingEdited, planModeActive, vaultContent, accessVars>>

TrackerNext ==
  \/ setPlanModeActive
  \/ clear
  \/ dismissEditedFile
  \/ markFileBeingEdited
  \/ vaultRead
  \/ markFileBeingEditedResumed
  \/ trackEditedFile
  \/ trackEditedFileResumed
  \/ cancelFileEdit
  \/ handleFileDeleted
  \/ handleFileRenamed
  \/ handleFileModified
  \/ handleFileModifiedResumed

TrackerSpec == TrackerInit /\ [][TrackerNext]_vars

----------------------------------------------------------------------------
(* What the claims speak of *)

AccessOps ==
  {"getPathAccessType", "isPathWithinVault",
   "isPathInAllowedExportPaths", "isPathInAllowedContextPaths"}

\* the resolved vault root and the resolved candidate of the last call
VaultReal == ResolvedForComparison(fs, vaultPath)
CandidateReal == ResolvedForComparison(fs, AbsCandidate(candidatePath, vaultPath))

\* the resolved path of a root entry
RootReal(entry) == ResolvedForComparison(fs, normalizePathBeforeResolution(entry))

\* root is a plain string prefix of path
HasPrefix(path, root) ==
  /\ Len(root) <= Len(path)
  /\ \A i \in 1..Len(root) : path[i] = root[i]

\* path is root itself, or root is a prefix of path that a separator follows
Inside(path, root) ==
  /\ HasPrefix(path, root)
  /\ (Len(path) = Len(root) \/ path[Len(root) + 1] = Sep)

\* root is a prefix of path, but path is neither root nor has a separator next
PrefixOnly(path, root) == HasPrefix(path, root) /\ ~Inside(path, root)

\* the resolved paths of the entries of a list that getPathAccessType does
\* not skip
KeptReals(list) ==
  {RootReal(Trim(list[i])) : i \in {j \in 1..Len(list) : Trim(list[j]) # <<>>}}

\* the resolved paths of all entries of a list, as the single-list predicates
\* take them
ListReals(list) == {RootReal(list[i]) : i \in 1..Len(list)}

\* the roots among reals that equal or contain the resolved path
MatchingOf(path, reals) == {r \in reals : Inside(path, r)}

\* the roots among matching that no other one is longer than
LongestOf(matching) == {r \in matching : \A q \in matching : Len(q) <= Len(r)}

\* the last call was getPathAccessType with a candidate that is not empty
ClassifyCall == op = "getPathAccessType" /\ candidatePath # <<>>

----------------------------------------------------------------------------
(* Claims *)

\* C1 as stated: whenever the candidate's resolved path is the resolved vault
\* root or lies inside it, getPathAccessType returns 'vault', whatever the lists
C1_VaultContainmentAnyCandidate ==
  (op = "getPathAccessType" /\ Inside(CandidateReal, VaultReal))
    => ret = "vault"

\* C1 (amended): for every non-empty candidate whose resolved path is the
\* resolved vault root or lies inside it, getPathAccessType returns 'vault',
\* whatever the context and export lists hold
C1_VaultContainment ==
  (ClassifyCall /\ Inside(CandidateReal, VaultReal)) => ret = "vault"

\* C1 witness: a candidate inside the vault is 'vault' although a configured
\* root equals or contains it as well
C1_Witness ==
  /\ ClassifyCall
  /\ ret = "vault"
  /\ LET cand == CandidateReal
     IN /\ Inside(cand, VaultReal)
        /\ MatchingOf(cand, KeptReals(contextPaths) \cup KeptReals(exportPaths)) # {}

\* C2: a root that is only a plain string prefix of the resolved candidate,
\* with no separator after it, never makes the candidate count as inside: not
\* the vault root, and no context or export root, in any of the four functions
C2_BoundaryNonMatch ==
  LET cand   == CandidateReal
      merged == KeptReals(contextPaths) \cup KeptReals(exportPaths)
      single == ListReals(contextPaths \o exportPaths)
  IN /\ (ClassifyCall /\ PrefixOnly(cand, VaultReal)) => ret # "vault"
     /\ (op = "isPathWithinVault" /\ PrefixOnly(cand, VaultReal)) => ret = "false"
     /\ (/\ ClassifyCall
         /\ \E r \in merged : PrefixOnly(cand, r)
         /\ MatchingOf(cand, merged) = {})
          => ret \in {"vault", "none"}
     /\ (/\ op \in {"isPathInAllowedExportPaths", "isPathInAllowedContextPaths"}
         /\ \E r \in single : PrefixOnly(cand, r)
         /\ MatchingOf(cand, single) = {})
          => ret = "false"

\* C2 witness: /vault2/file against the vault root /vault and an export root
\* /vault is neither 'vault' nor 'export'
C2_Witness ==
  /\ ClassifyCall
  /\ candidatePath = AbsOf(<<vault2, file>>)
  /\ vaultPath = AbsOf(<<vault>>)
  /\ exportPaths = <<AbsOf(<<vault>>)>>
  /\ PrefixOnly(CandidateReal, VaultReal)
  /\ ret = "none"

\* the access type that a root's flags stand for
ClassOfFlags(isContext, isExport) ==
  IF isContext /\ isExport THEN "readwrite"
  ELSE IF isContext THEN "context"
  ELSE IF isExport THEN "export"
  ELSE "none"

\* C3: outside the vault, of all merged roots that equal or contain the
\* resolved candidate only the one with the longest resolved path decides, by
\* its flags; /docs as context root and /docs/sub as export root make
\* /docs/sub/c 'export'
C3_MostSpecificRootWins ==
  ClassifyCall =>
    LET cand     == CandidateReal
        contexts == KeptReals(contextPaths)
        exports  == KeptReals(exportPaths)
        longest  == LongestOf(MatchingOf(cand, contexts \cup exports))
    IN ~Inside(cand, VaultReal) =>
         /\ \A r \in longest : ret = ClassOfFlags(r \in contexts, r \in exports)
         /\ (/\ candidatePath = AbsOf(<<docs, sub, c_name>>)
             /\ contextPaths = <<AbsOf(<<docs>>)>>
             /\ exportPaths = <<AbsOf(<<docs, sub>>)>>)
              => ret = "export"

\* C3 witness: the nested roots of the example, both matching, in a call that
\* returned 'export'
C3_Witness ==
  /\ ClassifyCall
  /\ candidatePath = AbsOf(<<docs, sub, c_name>>)
  /\ contextPaths = <<AbsOf(<<docs>>)>>
  /\ exportPaths = <<AbsOf(<<docs, sub>>)>>
  /\ ret = "export"
  /\ LET cand == CandidateReal
     IN /\ ~Inside(cand, VaultReal)
        /\ Inside(cand, RootReal(contextPaths[1]))
        /\ Inside(cand, RootReal(exportPaths[1]))

\* C4: a context entry and an export entry with the same resolved path are one
\* root with both flags: a candidate outside the vault whose most specific
\* matching root is that root is 'readwrite'
C4_ReadwriteMerge ==
  ClassifyCall =>
    LET cand     == CandidateReal
        contexts == KeptReals(contextPaths)
        exports  == KeptReals(exportPaths)
        both     == contexts \cap exports
    IN (both # {} /\ ~Inside(cand, VaultReal)) =>
         \A r \in LongestOf(MatchingOf(cand, contexts \cup exports)) :
           r \in both => ret = "readwrite"

\* C4 witness: the context entry is a symbolic link, the export entry its
\* target, two different strings, and the call returned 'readwrite'
C4_Witness ==
  /\ ClassifyCall
  /\ contextPaths = <<AbsOf(<<ctx>>)>>
  /\ exportPaths = <<AbsOf(<<docs>>)>>
  /\ fs[<<ctx>>] = LinkNode(AbsOf(<<docs>>))
  /\ candidatePath = AbsOf(<<docs, readme_md>>)
  /\ ~Inside(CandidateReal, VaultReal)
  /\ ret = "readwrite"

\* C5: outside the vault the result is 'none' exactly when no merged root
\* equals or contains the resolved candidate, and otherwise 'context',
\* 'export' or 'readwrite' as the selected root has the context flag only, the
\* export flag only, or both
C5_ResultMapping ==
  ClassifyCall =>
    LET cand     == CandidateReal
        contexts == KeptReals(contextPaths)
        exports  == KeptReals(exportPaths)
        matching == MatchingOf(cand, contexts \cup exports)
        longest  == LongestOf(matching)
    IN ~Inside(cand, VaultReal) =>
         /\ (ret = "none") <=> (matching = {})
         /\ ret = "context" => \E r \in longest : r \in contexts /\ r \notin exports
         /\ ret = "export" => \E r \in longest : r \notin contexts /\ r \in exports
         /\ ret = "readwrite" => \E r \in longest : r \in contexts /\ r \in exports
         /\ ret \in {"none", "context", "export", "readwrite"}

\* C5 witness: a call outside the vault that returned 'context' for a root
\* listed as context only, while an export root that does not match is listed
C5_Witness ==
  /\ ClassifyCall
  /\ ret = "context"
  /\ LET cand    == CandidateReal
         exports == KeptReals(exportPaths)
     IN /\ ~Inside(cand, VaultReal)
        /\ exports # {}
        /\ MatchingOf(cand, exports) = {}

\* the non-empty segments of the absolute form of p
AbsoluteSegs(p) == SelectSeq(Split(pathResolve(p)), LAMBDA x : x # <<>>)

\* the length of the longest prefix of segs that names something that exists
NearestExisting(f, segs) ==
  CHOOSE k \in 0..Len(segs) :
    /\ existsSync(f, AbsOf(SubSeq(segs, 1, k)))
    /\ \A j \in (k + 1)..Len(segs) : ~existsSync(f, AbsOf(SubSeq(segs, 1, j)))

\* C6: when the full path does not exist, resolveRealPath returns the
\* canonical form of the nearest existing ancestor followed by the stripped
\* segments in their original order; with /ctx a symbolic link to /docs and no
\* /docs/newfile.txt, /ctx/newfile.txt resolves to /docs/newfile.txt
C6_NonexistentTargetResolution ==
  (op = "resolveRealPath" /\ ~realpathFn(fs, candidatePath).ok) =>
    LET segs == AbsoluteSegs(candidatePath)
        k    == NearestExisting(fs, segs)
        base == realpathFn(fs, AbsOf(SubSeq(segs, 1, k))).path
    IN /\ ret = AbsOf(base \o SubSeq(segs, k + 1, Len(segs)))
       /\ (/\ candidatePath = AbsOf(<<ctx, newfile_txt>>)
           /\ fs[<<ctx>>] = LinkNode(AbsOf(<<docs>>)))
            => ret = AbsOf(<<docs, newfile_txt>>)

\* C6 witness: the example, resolved through the link
C6_Witness ==
  /\ op = "resolveRealPath"
  /\ candidatePath = AbsOf(<<ctx, newfile_txt>>)
  /\ fs[<<ctx>>] = LinkNode(AbsOf(<<docs>>))
  /\ ~realpathFn(fs, candidatePath).ok
  /\ ret = AbsOf(<<docs, newfile_txt>>)

\* C7: each of the four access functions returns a value, never an exception,
\* for every candidate, vault root and root list and in every filesystem state
C7_NoException ==
  op \in AccessOps => ret # "throw"

\* C7 witness: a candidate behind a symbolic link loop, with a blank root
\* entry in the list, is classified
C7_Witness ==
  /\ op = "getPathAccessType"
  /\ fs[<<ctx>>] = LinkNode(AbsOf(<<ctx>>))
  /\ candidatePath = AbsOf(<<ctx, newfile_txt>>)
  /\ ~realpathFn(fs, candidatePath).ok
  /\ \E i \in 1..Len(exportPaths) : Trim(exportPaths[i]) = <<>>
  /\ ret \in {"vault", "readwrite", "context", "export", "none"}

\* C8: for the empty candidate getPathAccessType returns 'none' and each of
\* the three predicates returns false, whatever the vault root and the lists
C8_EmptyCandidateDenied ==
  (op \in AccessOps /\ candidatePath = <<>>)
    => ret = (IF op = "getPathAccessType" THEN "none" ELSE "false")

\* C9: with vault root /vault, context roots [/docs], export roots [/out] and
\* no symbolic link under them, notes/a.md is 'vault', /docs/readme.md
\* 'context', /out/report.pdf 'export' and /etc/passwd 'none'
C9_ReferenceScenario ==
  (/\ op = "getPathAccessType"
   /\ vaultPath = AbsOf(<<vault>>)
   /\ contextPaths = <<AbsOf(<<docs>>)>>
   /\ exportPaths = <<AbsOf(<<out>>)>>
   /\ fs[<<vault, notes>>].kind # "link")
    => /\ candidatePath = notes \o <<Sep>> \o a_md => ret = "vault"
       /\ candidatePath = AbsOf(<<docs, readme_md>>) => ret = "context"
       /\ candidatePath = AbsOf(<<out, report_pdf>>) => ret = "export"
       /\ candidatePath = AbsOf(<<etc, passwd>>) => ret = "none"

\* C9 witness: the relative candidate of the scenario, classified 'vault'
C9_Witness ==
  /\ op = "getPathAccessType"
  /\ vaultPath = AbsOf(<<vault>>)
  /\ contextPaths = <<AbsOf(<<docs>>)>>
  /\ exportPaths = <<AbsOf(<<out>>)>>
  /\ fs[<<vault, notes>>].kind # "link"
  /\ candidatePath = notes \o <<Sep>> \o a_md
  /\ ret = "vault"

\* C10: isPathWithinVault is true exactly when getPathAccessType returns
\* 'vault' for the same candidate and vault root, whatever the root lists, the
\* empty candidate included
C10_VaultPredicateAgrees ==
  op = "isPathWithinVault" =>
    \A pair \in RootListPairs :
      (ret = "true") <=>
        (getPathAccessType(fs, candidatePath, pair[1], pair[2], vaultPath) = "vault")

\* C11: for a candidate outside the vault, isPathInAllowedExportPaths on a list
\* is true exactly when getPathAccessType with that list as the only export
\* roots returns 'export', and isPathInAllowedContextPaths is true exactly when
\* getPathAccessType with that list as the only context roots returns
\* 'context', blank and padded entries included
C11_SingleListAgrees ==
  LET outside == ~Inside(CandidateReal, VaultReal)
  IN /\ (op = "isPathInAllowedExportPaths" /\ outside) =>
          ((ret = "true") <=>
             (getPathAccessType(fs, candidatePath, <<>>, exportPaths, vaultPath)
                = "export"))
     /\ (op = "isPathInAllowedContextPaths" /\ outside) =>
          ((ret = "true") <=>
             (getPathAccessType(fs, candidatePath, contextPaths, <<>>, vaultPath)
                = "context"))

\* C12: applying normalizePathBeforeResolution to its own result gives that
\* result again, in every environment
C12_NormalizationIdempotent ==
  op = "normalizePathBeforeResolution" =>
    normalizePathBeforeResolution(ret) = ret

\* the references, in each of the five syntaxes, to a variable that is defined
DefinedReferences ==
  {<<Reference(syntax, name), env[name]>> :
     syntax \in Syntaxes, name \in DOMAIN env \cap VariableNames}
    \cup {<<Reference("%", name), env[name]>> : name \in DOMAIN env}

\* C13: on every platform a reference to a defined variable in any of the five
\* syntaxes %NAME% (parentheses allowed), !NAME!, $env:NAME, $NAME and ${NAME}
\* is replaced by the variable's value
C13_AllSyntaxesEveryPlatform ==
  op = "expandEnvironmentVariables" =>
    \A r \in DefinedReferences :
      (candidatePath = r[1] /\ ~Includes(r[2], "$")) => ret = r[2]

\* whether a variable of that name has a value: an own property of the
\* environment, on Windows under any spelling of its letters' case
IsDefined(name) ==
  \E key \in DOMAIN env :
    \/ key = name
    \/ platform = "win32" /\ toLowerCase(key) = toLowerCase(name)

\* the value of the defined variable of that name
ValueOf(name) ==
  IF name \in DOMAIN env THEN env[name]
  ELSE env[CHOOSE key \in DOMAIN env : toLowerCase(key) = toLowerCase(name)]

\* the syntaxes that the platform's expansion recognises
RecognisedSyntaxes ==
  IF platform = "win32" THEN Syntaxes ELSE {"%", "$", "${"}

ReferenceNames == VariableNames \cup {PF_VAR, docs}

\* token is a recognised reference to a variable that is not defined
IsUnresolvable(token) ==
  \E syntax \in RecognisedSyntaxes, name \in ReferenceNames :
    token = Reference(syntax, name) /\ ~IsDefined(name)

\* what a path segment should become: the value for a recognised reference to
\* a defined variable, the segment itself otherwise
ExpectedToken(token) ==
  LET hits == {pr \in RecognisedSyntaxes \X ReferenceNames :
                 token = Reference(pr[1], pr[2]) /\ IsDefined(pr[2])}
  IN IF hits = {} THEN token
     ELSE ValueOf((CHOOSE pr \in hits : TRUE)[2])

\* no value of the environment holds a reference character
ValuesArePlain ==
  \A name \in DOMAIN env :
    ~Includes(env[name], "$") /\ ~Includes(env[name], "%") /\ ~Includes(env[name], "!")

\* C14: a recognised reference to a variable that is not defined stays in the
\* output character for character, in its place, while the references to
\* defined variables in the same string are replaced by their values
C14_UnresolvableLeftVerbatim ==
  op = "expandEnvironmentVariables" =>
    LET tokens == Split(candidatePath)
    IN /\ SelectSeq(Split(ret), IsUnresolvable) = SelectSeq(tokens, IsUnresolvable)
       /\ ValuesArePlain =>
            ret = JoinSegs([i \in 1..Len(tokens) |-> ExpectedToken(tokens[i])])

\* C15: expandHomePath substitutes the home directory for exactly ~, for a
\* leading ~/ and, on Windows only, for a leading ~\; every other string is
\* returned with no home substitution
C15_HomeExpansionForms ==
  op = "expandHomePath" =>
    LET expanded == expandEnvironmentVariables(candidatePath)
    IN IF expanded = <<"~">> THEN ret = HomeDir
       ELSE IF StartsWith(expanded, <<"~", Sep>>)
         THEN ret = pathJoin(HomeDir, <<SliceFrom(expanded, 2)>>)
       ELSE IF StartsWith(expanded, <<"~", "\\">>) /\ platform = "win32"
         THEN ret = pathJoin(HomeDir, <<SliceFrom(expanded, 2)>>)
       ELSE ret = expanded

\* value is /X or starts with /X/ for a single letter X
IsMsysDrivePath(value) ==
  /\ Len(value) >= 2
  /\ value[1] = "/"
  /\ value[2] \in Lower \cup Upper
  /\ (Len(value) = 2 \/ value[3] = "/")

CallOps == AccessOps \cup {"resolveRealPath"}

\* what the function called last returns for its arguments in the present
\* state of the filesystem and the environment
ResultOfCall ==
  IF op = "getPathAccessType"
    THEN getPathAccessType(fs, candidatePath, contextPaths, exportPaths, vaultPath)
  ELSE IF op = "isPathWithinVault"
    THEN isPathWithinVault(fs, candidatePath, vaultPath)
  ELSE IF op = "isPathInAllowedExportPaths"
    THEN isPathInAllowedExportPaths(fs, candidatePath, exportPaths, vaultPath)
  ELSE IF op = "isPathInAllowedContextPaths"
    THEN isPathInAllowedContextPaths(fs, candidatePath, contextPaths, vaultPath)
  ELSE resolveRealPath(fs, candidatePath)

\* a call changes neither the filesystem nor the environment nor the platform
CallLeavesWorld ==
  (op = "idle" /\ op' # "idle") => (fs' = fs /\ env' = env /\ platform' = platform)

\* once a call has returned nothing of it is left
NothingKept ==
  op' = "idle" =>
    /\ candidatePath' = <<>>
    /\ contextPaths' = <<>>
    /\ exportPaths' = <<>>
    /\ vaultPath' = <<>>
    /\ ret' = "-"
    /\ fsAccess' = FALSE

ListOfCall ==
  IF op = "isPathInAllowedExportPaths" THEN exportPaths ELSE contextPaths

SingleListOps == {"isPathInAllowedExportPaths", "isPathInAllowedContextPaths"}

\* C18 as stated: with an empty list the single-list predicates return false,
\* and with both lists empty getPathAccessType returns 'none', in each case
\* without any call that queries the filesystem
C18_EmptyListsShortCircuit ==
  /\ (op \in SingleListOps /\ ListOfCall = <<>>) => (ret = "false" /\ ~fsAccess)
  /\ (op = "getPathAccessType" /\ contextPaths = <<>> /\ exportPaths = <<>>)
       => (ret = "none" /\ ~fsAccess)

\* C18 (amended): with an empty list the single-list predicates return false
\* without resolving any path; getPathAccessType with both lists empty
\* resolves the vault root and the candidate whenever the candidate is not
\* empty, and returns 'vault' for a non-empty candidate inside the vault and
\* 'none' otherwise
C18_EmptyListsAnswer ==
  /\ (op \in SingleListOps /\ ListOfCall = <<>>) => (ret = "false" /\ ~fsAccess)
  /\ (op \in SingleListOps /\ ListOfCall # <<>>) => fsAccess
  /\ (op = "getPathAccessType" /\ contextPaths = <<>> /\ exportPaths = <<>>) =>
       /\ fsAccess <=> candidatePath # <<>>
       /\ ret = (IF candidatePath # <<>> /\ Inside(CandidateReal, VaultReal)
                   THEN "vault" ELSE "none")

\* C18 witness: the export predicate on an empty list answers false for a path
\* that exists, having resolved nothing
C18_Witness ==
  /\ op = "isPathInAllowedExportPaths"
  /\ exportPaths = <<>>
  /\ candidatePath = AbsOf(<<docs, readme_md>>)
  /\ ret = "false"
  /\ ~fsAccess

\* C19: getCacheAbsolutePath returns a path only when that path is the image
\* cache directory or lies inside it, and null for every relative path that
\* denotes a place outside it
C19_CacheContainment ==
  (op = "getCacheAbsolutePath" /\ ret # Null) =>
    Inside(ret, pathResolve2(vaultPath, IMAGE_CACHE_DIR))

\* C20: the vault root is normalized like every other path before it is
\* resolved, so each access function answers for a vault root as it answers
\* for the normalized form of that root
C20_VaultRootNormalized ==
  /\ op = "getPathAccessType" =>
       ret = getPathAccessType(fs, candidatePath, contextPaths, exportPaths,
                               normalizePathBeforeResolution(vaultPath))
  /\ op = "isPathWithinVault" =>
       ret = isPathWithinVault(fs, candidatePath,
                               normalizePathBeforeResolution(vaultPath))

\* what the function called last answers once the candidate is resolved to
\* the given path
AnswerFor(resolvedCandidate) ==
  IF op = "getPathAccessType"
    THEN (IF candidatePath = <<>> THEN "none"
          ELSE ClassifyResolved(fs, resolvedCandidate, VaultReal,
                                contextPaths, exportPaths))
  ELSE IF op = "isPathWithinVault"
    THEN (IF IsWithin(resolvedCandidate, VaultReal) THEN "true" ELSE "false")
  ELSE IF ListOfCall = <<>> THEN "false"
  ELSE AnyRootContains(fs, resolvedCandidate, ListOfCall, 1)

HomeStep(expanded) ==
  IF expanded = <<"~">> THEN HomeDir
  ELSE IF StartsWith(expanded, <<"~", Sep>>) \/ StartsWith(expanded, <<"~", "\\">>)
    THEN pathJoin(HomeDir, <<SliceFrom(expanded, 2)>>)
  ELSE expanded

\* C22: normalization before resolution expands the variables first, applies
\* the home expansion to the result and the MSYS translation to that; so a
\* reference to a variable whose value starts with ~/ ends under the home
\* directory, and on Windows a reference to a variable whose value is an MSYS
\* path ends as a drive path
C22_NormalizationOrder ==
  op = "normalizePathBeforeResolution" =>
    LET expanded == expandEnvironmentVariables(candidatePath)
    IN /\ ret = translateMsysPath(HomeStep(expanded))
       /\ (platform # "win32" /\ StartsWith(expanded, <<"~", Sep>>)) =>
            ret = pathJoin(HomeDir, <<SliceFrom(expanded, 2)>>)
       /\ (platform = "win32" /\ IsMsysDrivePath(expanded)) =>
            (ret[1] \in Upper /\ ret[2] = ":" /\ ~Includes(ret, Sep))

\* C22 witness: on Windows %PF(x86)%, whose value is /c/x, becomes C:\x
C22_Witness ==
  /\ op = "normalizePathBeforeResolution"
  /\ platform = "win32"
  /\ env = LayeredEnv
  /\ candidatePath = Reference("%", PF_VAR)
  /\ ret = <<"C", ":", "\\">> \o x_name

\* C22 witness off Windows: $A, whose value is ~/x, becomes /home/x
C22_WitnessHome ==
  /\ op = "normalizePathBeforeResolution"
  /\ platform = "linux"
  /\ env = LayeredEnv
  /\ candidatePath = Reference("$", A_VAR)
  /\ ret = HomeDir \o <<Sep>> \o x_name

\* C23: on Windows every candidate of the form /X or /X/... is, once
\* translated, an absolute drive path when the absolute-path check runs, so it
\* is located on drive X by itself and never relative to the vault root
C23_MsysNeverVaultRelative ==
  (op = "absCandidate" /\ IsMsysDrivePath(candidatePath)) =>
    /\ win32IsAbsolute(translateMsysPath(candidatePath))
    /\ ret = translateMsysPath(candidatePath)
    /\ ret # vaultPath

\* the walk of resolveRealPath is under way
Walking == op = "resolveRealPath.loop"

\* the absolute form of the path being resolved
WalkAbsolute == pathResolve(candidatePath)

\* the ancestors stripped so far: current followed by the last k stripped
\* segments, for k from 1 to all of them
StrippedAncestors ==
  {pathJoin(walkCurrent,
            Reverse(SubSeq(walkSuffix, Len(walkSuffix) - k + 1, Len(walkSuffix)))) :
     k \in 1..Len(walkSuffix)}

\* one round strips exactly one trailing segment, or ends the walk
OneSegmentPerRound ==
  IF Walking /\ walkCurrent' # walkCurrent
    THEN /\ walkCurrent' = pathDirname(walkCurrent)
         /\ Len(walkCurrent') < Len(walkCurrent)
         /\ walkSuffix' = Append(walkSuffix, pathBasename(walkCurrent))
         /\ op' = op
    ELSE TRUE

\* the walk ends with the canonical form of an ancestor that exists followed
\* by the stripped segments, or at the root with the absolute form of the input
WalkEnds ==
  IF Walking /\ ~Walking'
    THEN \/ /\ realpathFn(fs, walkCurrent).ok
            /\ ret' = Rejoin(AbsOf(realpathFn(fs, walkCurrent).path), walkSuffix)
         \/ /\ pathDirname(walkCurrent) = walkCurrent
            /\ walkCurrent = <<Sep>>
            /\ ret' = WalkAbsolute
    ELSE TRUE

\* during the walk current is absolute, and current followed by the stripped
\* segments is the absolute form of the input
WalkKeepsInput ==
  IF Walking
    THEN isAbsolute(walkCurrent) /\ Rejoin(walkCurrent, walkSuffix) = WalkAbsolute
    ELSE TRUE

\* a walk on which no ancestor that exists was passed ends with the value
\* that resolveRealPath returns
WalkAgrees ==
  IF op = "resolveRealPath" /\ (\A a \in StrippedAncestors : ~existsSync(fs, a))
    THEN ret = resolveRealPath(fs, candidatePath)
    ELSE TRUE

\* C24: the upward walk always terminates. It starts from the absolute form
\* of the input and keeps current followed by the stripped segments equal to
\* it; each round strips one trailing segment; it ends at an ancestor that
\* exists and is canonicalised, or at the root with the input made absolute;
\* when no canonicalisation failed on the way it ends at the first ancestor
\* that exists, with the value resolveRealPath returns
C24_WalkTerminates ==
  /\ (Walking ~> op = "resolveRealPath")
  /\ []WalkKeepsInput
  /\ [][OneSegmentPerRound /\ WalkEnds]_<<op, walkVars>>
  /\ []WalkAgrees

\* C24 witness: /gone/sub/c, of which only the root exists, resolved after
\* three rounds
C24_Witness ==
  /\ op = "resolveRealPath"
  /\ candidatePath = AbsOf(<<gone, sub, c_name>>)
  /\ walkCurrent = <<Sep>>
  /\ walkSuffix = <<c_name, sub, gone>>
  /\ ret = candidatePath

\* C24 witness of a skipped ancestor: /vault exists but the walk went past it
\* to the root
C24_WitnessSkipped ==
  /\ op = "resolveRealPath"
  /\ candidatePath = AbsOf(<<vault, notes, sub, a_md>>)
  /\ walkCurrent = <<Sep>>
  /\ \E a \in StrippedAncestors : existsSync(fs, a)
  /\ ret = candidatePath

\* path is root, or root followed by the separator and more
InsideWith(path, root, sep) ==
  /\ HasPrefix(path, root)
  /\ (Len(path) = Len(root) \/ path[Len(root) + 1] = sep)

\* C25: on Windows a resolved candidate is inside a resolved root exactly
\* when it is so with the letter case of both set aside; on every other
\* platform the comparison is case-sensitive, and /Vault/x is not inside /vault
C25_CaseFolding ==
  op = "compareResolved" =>
    IF platform = "win32"
      THEN (ret = "true") <=>
             InsideWith(toLowerCase(candidatePath), toLowerCase(vaultPath), BackSep)
      ELSE /\ (ret = "true") <=> InsideWith(candidatePath, vaultPath, Sep)
           /\ (candidatePath = AbsOf(<<Vault_name, x_name>>)
                 /\ vaultPath = AbsOf(<<vault>>)) => ret = "false"

\* C25 witness: on Windows C:\VAULT\X is inside the root c:\vault
C25_Witness ==
  /\ op = "compareResolved"
  /\ platform = "win32"
  /\ candidatePath = <<"C", ":", BackSep>> \o VAULT_NAME \o <<BackSep>> \o X_NAME
  /\ vaultPath = <<"c", ":", BackSep>> \o vault
  /\ ret = "true"

\* C25 witness off Windows: /Vault/x is not inside the root /vault
C25_WitnessSensitive ==
  /\ op = "compareResolved"
  /\ platform = "linux"
  /\ candidatePath = AbsOf(<<Vault_name, x_name>>)
  /\ vaultPath = AbsOf(<<vault>>)
  /\ ret = "false"

\* the lists with the same entries as q in every order
Reorderings(q) ==
  {[i \in 1..Len(q) |-> q[f[i]]] : f \in Permutations(1..Len(q))}

\* the lists obtained from q by writing one of its entries a second time
Repetitions(q) == {Append(q, q[i]) : i \in 1..Len(q)}

\* the other ways of writing the list q
Rewritings(q) == Reorderings(q) \cup Repetitions(q)

\* the roots of the merged map that equal or contain the resolved candidate
MatchingRoots ==
  LET entries == MergedRoots(fs, contextPaths, exportPaths).entries
  IN {entries[i].root : i \in {j \in 1..Len(entries) :
                                  IsWithin(CandidateReal, entries[j].root)}}

\* C26: no two different roots of the merged map that match the candidate
\* have resolved paths of the same length, and getPathAccessType returns the
\* same class when the entries of the context list or of the export list are
\* written in another order or an entry is written twice
C26_ListOrderIrrelevant ==
  ClassifyCall =>
    /\ \A r1, r2 \in MatchingRoots : Len(r1) = Len(r2) => r1 = r2
    /\ \A c \in Rewritings(contextPaths), e \in Rewritings(exportPaths) :
         ret = ClassifyResolved(fs, CandidateReal, VaultReal, c, e)

\* C26 witness: with /docs listed for context and export and /docs/sub for
\* context only, /docs/sub/c is 'context' whether the context list names
\* /docs/sub after /docs or before it
C26_Witness ==
  /\ ClassifyCall
  /\ candidatePath = AbsOf(<<docs, sub, c_name>>)
  /\ contextPaths = <<AbsOf(<<docs>>), AbsOf(<<docs, sub>>)>>
  /\ exportPaths = <<AbsOf(<<docs>>)>>
  /\ Cardinality(MatchingRoots) = 2
  /\ ret = "context"
  /\ getPathAccessType(fs, candidatePath,
                       <<AbsOf(<<docs, sub>>), AbsOf(<<docs>>)>>,
                       exportPaths, vaultPath) = "context"

\* the absolute path that the last call located the candidate at, and the
\* place where a write to it creates or overwrites the file
CandidateAbsolute == AbsCandidate(candidatePath, vaultPath)
CandidateCreated == createLocation(fs, CandidateAbsolute)

\* the last component of the located candidate is a symbolic link whose target
\* does not exist, and a write through it creates the target
DanglingLast ==
  /\ lstatLast(fs, CandidateAbsolute).kind = "link"
  /\ ~existsSync(fs, CandidateAbsolute)
  /\ CandidateCreated.ok

\* the located candidate names a symbolic link that lies inside the root
LinkLiesInside(rootReal) ==
  Inside(pathJoin(resolveRealPath(fs, pathDirname(CandidateAbsolute)),
                  <<pathBasename(CandidateAbsolute)>>), rootReal)

\* C27 as stated: a candidate whose last component is a symbolic link inside
\* the vault or inside a listed root, with a target outside that root that
\* does not exist, is not classified as inside that root, and its resolved
\* path is the place where the operating system creates the file
C27_DanglingLinkNoEscape ==
  (ClassifyCall /\ ret # "throw" /\ DanglingLast) =>
    /\ CandidateReal = AbsOf(CandidateCreated.path)
    /\ (LinkLiesInside(VaultReal) /\ ~Inside(AbsOf(CandidateCreated.path), VaultReal))
         => ret # "vault"
    /\ (\A r \in KeptReals(contextPaths) \cup KeptReals(exportPaths) \cup {VaultReal} :
           ~Inside(AbsOf(CandidateCreated.path), r))
         => ret = "none"

\* the candidate of the last call as the operating system is handed it: made
\* absolute against the vault root, its segments left as written
CandidateWritten ==
  LET Written(normalized) ==
        IF isAbsolute(normalized) THEN normalized
        ELSE vaultPath \o <<Sep>> \o normalized
  IN Written(normalizePathBeforeResolution(candidatePath))

WrittenCreated == createLocation(fs, CandidateWritten)

\* a parent-directory segment of the written candidate follows a segment that
\* is a symbolic link
ParentAfterLink ==
  LET segs == SelectSeq(Split(CandidateWritten), LAMBDA x : x # <<>>)
  IN \E i \in 2..Len(segs) :
       /\ segs[i] = <<".", ".">>
       /\ lstatLast(fs, AbsOf(SubSeq(segs, 1, i - 1))).kind = "link"

\* C28 as stated: for a candidate <root>/link/../name, link a symbolic link to
\* a directory and name missing, the resolved path is the place under the
\* parent of the link's target where the operating system creates the file, and
\* the candidate is not classified inside the vault or a listed root when
\* that place is outside it
C28_ParentAfterLinkAsTheOs ==
  (/\ op \in {"getPathAccessType", "isPathWithinVault"}
   /\ candidatePath # <<>>
   /\ ret # "throw"
   /\ ParentAfterLink
   /\ WrittenCreated.ok
   /\ ~existsSync(fs, CandidateWritten)) =>
    /\ CandidateReal = AbsOf(WrittenCreated.path)
    /\ ~Inside(AbsOf(WrittenCreated.path), VaultReal) => ret \notin {"vault", "true"}
    /\ (\A r \in KeptReals(contextPaths) \cup KeptReals(exportPaths) \cup {VaultReal} :
           ~Inside(AbsOf(WrittenCreated.path), r))
         => ret \in {"none", "false"}

\* C29 as stated: a vault root that resolves to the root directory contains
\* every absolute candidate, so the class is 'vault'; a listed root that
\* resolves to the root directory matches every candidate, so the class is
\* never 'none'
C29_FilesystemRootContainsAll ==
  (ClassifyCall /\ ret # "throw" /\ isAbsolute(CandidateReal)) =>
    /\ VaultReal = <<Sep>> => ret = "vault"
    /\ <<Sep>> \in KeptReals(contextPaths) \cup KeptReals(exportPaths) => ret # "none"

\* the paths that have a record in editedFileHashes
HashedPaths == {h.path : h \in editedFileHashes}

\* C30 as stated: once no call waits for a hash, every path with a record in
\* editedFileHashes is in editedFilesThisSession or in filesBeingEdited
C30_NoOrphanedHash ==
  pending = {} => HashedPaths \subseteq editedFilesThisSession \cup filesBeingEdited

====
